---- MODULE Spec2Model ----
(***************************************************************************)
(* A model of the pricing engine of src/rust/src/lib.rs: one PricingEngine *)
(* instance (its regex_cache) serving a sequence of calculate calls.       *)
(*                                                                         *)
(* Conventions.                                                            *)
(*  - A Rust String is a sequence of one-character strings, so that        *)
(*    starts_with, contains('*'), replace and parse act on characters.     *)
(*  - A Value (f64) is an exact rational [n, d] in lowest terms with d > 0;*)
(*    the bounded inputs stay far from overflow, infinities and NaN.       *)
(*  - A serde_json::Value is a record tagged by t: "str", "num", "bool",   *)
(*    "null"; a JSON number is an integer (as json!(2) is).                *)
(*  - Option<T> is [some |-> FALSE] or [some |-> TRUE, v |-> x].           *)
(*  - Result<T, String> is [ok |-> TRUE, ...] or [ok |-> FALSE, error].    *)
(*  - BreakdownEntry keeps step_id, name, operation, inputs and result;    *)
(*    description and calculation are display strings formatted from the   *)
(*    same values and are left out.                                        *)
(***************************************************************************)
EXTENDS Integers, Sequences, FiniteSets, TLC

-----------------------------------------------------------------------------
(* Bounds of the explored inputs.                                          *)

\* longest step list of the multi-step strategies
MaxSteps == 2
\* longest input list of the input-cost family
MaxInputs == 2
\* longest `inputs` list of a generated arithmetic step
MaxRefs == 2

\* the longest generated pattern and path, in characters
MaxPattern == 3

MaxPath == 4

-----------------------------------------------------------------------------
(* Option and Result.                                                      *)

None == [some |-> FALSE]

Some(x) == [some |-> TRUE, v |-> x]

-----------------------------------------------------------------------------
(* Strings as character sequences.                                         *)

Digits == <<"0", "1", "2", "3", "4", "5", "6", "7", "8", "9">>

DigitSet == {Digits[k] : k \in 1..10}

DigitVal(c) == (CHOOSE k \in 1..10 : Digits[k] = c) - 1

\* str::starts_with
StartsWith(s, prefix) ==
    /\ Len(s) >= Len(prefix)
    /\ SubSeq(s, 1, Len(prefix)) = prefix

\* str::contains(char)
Contains(s, c) == \E k \in 1..Len(s) : s[k] = c

RECURSIVE NatToStr(_)
\* decimal rendering of a natural number
NatToStr(n) ==
    IF n < 10 THEN <<Digits[n + 1]>>
    ELSE NatToStr(n \div 10) \o <<Digits[(n % 10) + 1]>>

\* i32 / i64 Display
IntToStr(n) == IF n < 0 THEN <<"-">> \o NatToStr(-n) ELSE NatToStr(n)

RECURSIVE StripZeros(_)
StripZeros(ds) ==
    IF Len(ds) > 1 /\ ds[1] = "0" THEN StripZeros(Tail(ds)) ELSE ds

RECURSIVE DigitsVal(_)
DigitsVal(ds) ==
    IF ds = <<>> THEN 0
    ELSE DigitsVal(SubSeq(ds, 1, Len(ds) - 1)) * 10 + DigitVal(ds[Len(ds)])

\* lexicographic <= on digit strings of equal length
RECURSIVE DigitsLeq(_, _)
DigitsLeq(a, b) ==
    IF a = <<>> THEN TRUE
    ELSE IF DigitVal(a[1]) < DigitVal(b[1]) THEN TRUE
    ELSE IF DigitVal(a[1]) > DigitVal(b[1]) THEN FALSE
    ELSE DigitsLeq(Tail(a), Tail(b))

I32MaxDigits == <<"2", "1", "4", "7", "4", "8", "3", "6", "4", "7">>

I32MinDigits == <<"2", "1", "4", "7", "4", "8", "3", "6", "4", "8">>

\* the magnitude ds (digits without leading zeros) as an i32 of the given sign,
\* None when it overflows
ParseMagnitude(neg, ds) ==
    IF Len(ds) > 10 THEN None
    ELSE IF Len(ds) = 10
    THEN IF neg /\ ds = I32MinDigits THEN Some(-2147483647 - 1)
         ELSE IF DigitsLeq(ds, I32MaxDigits)
         THEN Some(IF neg THEN -DigitsVal(ds) ELSE DigitsVal(ds))
         ELSE None
    ELSE Some(IF neg THEN -DigitsVal(ds) ELSE DigitsVal(ds))

\* the text after the optional sign: one or more ASCII digits
ParseUnsigned(neg, body) ==
    IF body = <<>> \/ (\E k \in 1..Len(body) : body[k] \notin DigitSet)
    THEN None
    ELSE ParseMagnitude(neg, StripZeros(body))

\* str::parse::<i32>: an optional sign, then one or more ASCII digits, in range
ParseI32(s) ==
    ParseUnsigned(s # <<>> /\ s[1] = "-",
                  IF s # <<>> /\ s[1] \in {"+", "-"} THEN Tail(s) ELSE s)

-----------------------------------------------------------------------------
(* Value = f64, as exact rationals.                                        *)

Abs(n) == IF n < 0 THEN -n ELSE n

RECURSIVE Gcd(_, _)
Gcd(a, b) == IF b = 0 THEN a ELSE Gcd(b, a % b)

\* the rational n/d (d # 0) in lowest terms, denominator positive
Norm(n, d) ==
    LET g == Gcd(Abs(n), Abs(d))
        s == IF d < 0 THEN -1 ELSE 1
    IN  [n |-> (s * n) \div g, d |-> (s * d) \div g]

Rat(n) == [n |-> n, d |-> 1]

Zero == Rat(0)

RAdd(a, b) == Norm(a.n * b.d + b.n * a.d, a.d * b.d)

RSub(a, b) == Norm(a.n * b.d - b.n * a.d, a.d * b.d)

RMul(a, b) == Norm(a.n * b.n, a.d * b.d)

\* b # Zero
RDiv(a, b) == Norm(a.n * b.d, a.d * b.n)

RLt(a, b) == a.n * b.d < b.n * a.d

RLe(a, b) == a.n * b.d <= b.n * a.d

RGt(a, b) == RLt(b, a)

RGe(a, b) == RLe(b, a)

\* f64::max, f64::min
RMax(a, b) == IF RLt(a, b) THEN b ELSE a

RMin(a, b) == IF RLt(b, a) THEN b ELSE a

RECURSIVE Pow10(_)
Pow10(k) == IF k = 0 THEN 1 ELSE 10 * Pow10(k - 1)

\* 10_f64.powi(dec)
Powi10(dec) == IF dec >= 0 THEN Rat(Pow10(dec)) ELSE Norm(1, Pow10(-dec))

\* f64::round: to the nearest integer, halves away from zero
RRound(a) ==
    LET m == (2 * Abs(a.n) + a.d) \div (2 * a.d)
    IN  Rat(IF a.n < 0 THEN -m ELSE m)

\* `x as i32` of a float: truncation toward zero
RTrunc(a) == IF a.n < 0 THEN -((-a.n) \div a.d) ELSE a.n \div a.d

-----------------------------------------------------------------------------
(* serde_json::Value.                                                      *)

JStr(s) == [t |-> "str", s |-> s]

JNum(k) == [t |-> "num", k |-> k]

JBool(b) == [t |-> "bool", b |-> b]

JNull == [t |-> "null"]

\* Value::as_str
AsStr(j) == IF j.t = "str" THEN Some(j.s) ELSE None

\* Value::as_f64
AsF64(j) == IF j.t = "num" THEN Some(Rat(j.k)) ELSE None

\* the match of lines 259-264 and 315-321: strings pass through, numbers and
\* booleans in their canonical text, null as "null"
ValueStr(j) ==
    CASE j.t = "str" -> j.s
      [] j.t = "num" -> IntToStr(j.k)
      [] j.t = "bool" -> IF j.b THEN <<"t", "r", "u", "e">>
                         ELSE <<"f", "a", "l", "s", "e">>
      [] OTHER -> <<"n", "u", "l", "l">>

\* Display of a serde_json::Value ("{}"): JSON text, strings quoted
JsonDisplay(j) ==
    IF j.t = "str" THEN <<"\"">> \o j.s \o <<"\"">> ELSE ValueStr(j)

-----------------------------------------------------------------------------
(* HashMap, as a function; its iteration order is not part of its value.   *)

EmptyMap == <<>>

\* HashMap::insert
Put(m, k, v) == [x \in (DOMAIN m) \cup {k} |-> IF x = k THEN v ELSE m[x]]

\* HashMap::get(..).unwrap_or(&0.0)
GetOrZero(m, k) == IF k \in DOMAIN m THEN m[k] ELSE Zero

\* the orders in which an iteration may visit the keys S of a HashMap
Orders(S) ==
    {o \in [1..Cardinality(S) -> S] :
        \A a, b \in 1..Cardinality(S) : o[a] = o[b] => a = b}

-----------------------------------------------------------------------------
(* Errors: the kind of spec section 7, the fixed text of the message and   *)
(* the values formatted into it.                                           *)

Error(kind, msg, subject, value, listing, nums) ==
    [kind |-> kind, msg |-> msg, subject |-> subject, value |-> value,
     listing |-> listing, nums |-> nums]

Err(e) == [ok |-> FALSE, error |-> e]

-----------------------------------------------------------------------------
(* Pattern matcher: get_regex and Regex::is_match.                         *)

ClassPlus == <<"[", "^", "/", "]", "+">>

RECURSIVE ReplaceStar(_)
\* pattern.replace('*', "[^/]+")
ReplaceStar(p) ==
    IF p = <<>> THEN <<>>
    ELSE (IF p[1] = "*" THEN ClassPlus ELSE <<p[1]>>) \o ReplaceStar(Tail(p))

\* format!("^{}$", pattern.replace('*', "[^/]+"))
RegexStr(pattern) == <<"^">> \o ReplaceStar(pattern) \o <<"$">>

RECURSIVE MatchHere(_, _)
\* the regex body `re` matches the whole of `path`: the class [^/]+ takes one
\* or more characters other than '/', any other character stands for itself
\* (the model's strings hold no other regex metacharacter)
MatchHere(re, path) ==
    IF re = <<>> THEN path = <<>>
    ELSE IF StartsWith(re, ClassPlus)
    THEN /\ path # <<>>
         /\ path[1] # "/"
         /\ \/ MatchHere(SubSeq(re, Len(ClassPlus) + 1, Len(re)), Tail(path))
            \/ MatchHere(re, Tail(path))
    ELSE /\ path # <<>>
         /\ path[1] = re[1]
         /\ MatchHere(Tail(re), Tail(path))

\* a match that is anchored at the start only
IsMatchPrefix(regex, path) ==
    \E k \in 0..Len(path) :
        MatchHere(SubSeq(regex, 2, Len(regex) - 1), SubSeq(path, 1, k))

\* Regex::is_match for a regex ^body$
IsMatch(regex, path) == MatchHere(SubSeq(regex, 2, Len(regex) - 1), path)

\* a get_regex that, on a miss, inserts the compiled regex but hands out a
\* regex the cache already held
GetRegexAny(cache, pattern) ==
    IF pattern \in DOMAIN cache
    THEN [cache |-> cache, regex |-> cache[pattern]]
    ELSE [cache |-> Put(cache, pattern, RegexStr(pattern)),
          regex |-> IF DOMAIN cache # {}
                    THEN cache[CHOOSE p \in DOMAIN cache : TRUE]
                    ELSE RegexStr(pattern)]

\* a get_regex whose cache holds one pattern: an insert evicts the others
GetRegexEvict(cache, pattern) ==
    IF pattern \in DOMAIN cache
    THEN [cache |-> cache, regex |-> cache[pattern]]
    ELSE [cache |-> Put(EmptyMap, pattern, RegexStr(pattern)),
          regex |-> RegexStr(pattern)]

\* get_regex: the cached regex of the pattern, else compile and insert
GetRegex(cache, pattern) ==
    IF pattern \in DOMAIN cache
    THEN [cache |-> cache, regex |-> cache[pattern]]
    ELSE [cache |-> Put(cache, pattern, RegexStr(pattern)),
          regex |-> RegexStr(pattern)]

-----------------------------------------------------------------------------
(* Node indexer.                                                           *)

PricingNode(path, node_type, cost, value) ==
    [path |-> path, node_type |-> node_type, cost |-> cost, value |-> value]

Input(path, value) == [path |-> path, value |-> value]

RECURSIVE NodesByPath(_)
\* nodes_by_path: all nodes of a path, in catalog order
NodesByPath(nodes) ==
    IF nodes = <<>> THEN EmptyMap
    ELSE LET init == NodesByPath(SubSeq(nodes, 1, Len(nodes) - 1))
             node == nodes[Len(nodes)]
         IN  Put(init, node.path,
                 (IF node.path \in DOMAIN init THEN init[node.path] ELSE <<>>)
                    \o <<node>>)

RECURSIVE LabelNodes(_)
\* label_nodes: keyed by (path, value as string); a later node replaces an
\* earlier one with the same key
LabelNodes(nodes) ==
    IF nodes = <<>> THEN EmptyMap
    ELSE LET init == LabelNodes(SubSeq(nodes, 1, Len(nodes) - 1))
             node == nodes[Len(nodes)]
         IN  IF node.node_type # "numeric" /\ node.value.some
             THEN Put(init, <<node.path, ValueStr(node.value.v)>>, node)
             ELSE init

RECURSIVE NumericNodes(_)
\* numeric_nodes: keyed by path; a later node replaces an earlier one
NumericNodes(nodes) ==
    IF nodes = <<>> THEN EmptyMap
    ELSE LET init == NumericNodes(SubSeq(nodes, 1, Len(nodes) - 1))
             node == nodes[Len(nodes)]
         IN  IF node.node_type = "numeric"
             THEN Put(init, node.path, node)
             ELSE init

-----------------------------------------------------------------------------
(* Required-input gate.                                                    *)

InputPaths(inputs) == [k \in 1..Len(inputs) |-> inputs[k].path]

RECURSIVE ValidatePatterns(_, _, _)
RECURSIVE ValidatePattern(_, _, _)
\* lines 283-290 for the first pattern, g being what get_regex returned
ValidatePattern(g, patterns, inputs) ==
    IF ~(\E k \in 1..Len(inputs) : IsMatch(g.regex, inputs[k].path))
    THEN [cache |-> g.cache,
          res |-> Err(Error("MissingRequiredInput", "Required input is missing",
                            patterns[1], <<>>, InputPaths(inputs), <<>>))]
    ELSE ValidatePatterns(g.cache, Tail(patterns), inputs)

\* the loop of lines 281-291 over the required patterns still to check
ValidatePatterns(cache, patterns, inputs) ==
    IF patterns = <<>> THEN [cache |-> cache, res |-> [ok |-> TRUE]]
    ELSE ValidatePattern(GetRegex(cache, patterns[1]), patterns, inputs)

\* validate_required_inputs
ValidateRequiredInputs(cache, pricing_strategy, inputs) ==
    IF pricing_strategy.required_inputs.some
    THEN ValidatePatterns(cache, pricing_strategy.required_inputs.v, inputs)
    ELSE [cache |-> cache, res |-> [ok |-> TRUE]]

-----------------------------------------------------------------------------
(* Input cost resolver.                                                    *)

\* available_values of lines 349-355: the values of the path's label nodes
RECURSIVE AvailableValues(_)
AvailableValues(ns) ==
    IF ns = <<>> THEN <<>>
    ELSE (IF ns[1].node_type = "label" /\ ns[1].value.some
          THEN <<JsonDisplay(ns[1].value.v)>> ELSE <<>>)
         \o AvailableValues(Tail(ns))

\* a lookup that tries the numeric node of the path before the label node
MatchingNodeNumericFirst(label_nodes, numeric_nodes, path, input_value_str) ==
    IF path \in DOMAIN numeric_nodes
    THEN Some(numeric_nodes[path])
    ELSE IF <<path, input_value_str>> \in DOMAIN label_nodes
    THEN Some(label_nodes[<<path, input_value_str>>])
    ELSE None

\* lines 323-326: the label node of (path, value as string), else the numeric
\* node of the path
MatchingNode(label_nodes, numeric_nodes, path, input_value_str) ==
    IF <<path, input_value_str>> \in DOMAIN label_nodes
    THEN Some(label_nodes[<<path, input_value_str>>])
    ELSE IF path \in DOMAIN numeric_nodes
    THEN Some(numeric_nodes[path])
    ELSE None

\* a rejection that reports every input without matching node as an unknown
\* path
InputCostUnknown(inp, matching_node, nodes_by_path, key_order) ==
    IF matching_node.some
    THEN IF matching_node.v.node_type = "numeric"
         THEN IF AsF64(inp.value).some
              THEN [ok |-> TRUE,
                    cost |-> RMul(AsF64(inp.value).v, matching_node.v.cost)]
              ELSE Err(Error("NonNumericInputForNumericNode",
                             "Invalid numeric input for path",
                             inp.path, JsonDisplay(inp.value), <<>>, <<>>))
         ELSE [ok |-> TRUE, cost |-> matching_node.v.cost]
    ELSE Err(Error("UnknownPath", "No pricing node found for path",
                   inp.path, <<>>, key_order, <<>>))

\* lines 328-361: the cost of one input, or the error that rejects it
InputCost(inp, matching_node, nodes_by_path, key_order) ==
    IF matching_node.some
    THEN IF matching_node.v.node_type = "numeric"
         THEN IF AsF64(inp.value).some
              THEN [ok |-> TRUE,
                    cost |-> RMul(AsF64(inp.value).v, matching_node.v.cost)]
              ELSE Err(Error("NonNumericInputForNumericNode",
                             "Invalid numeric input for path",
                             inp.path, JsonDisplay(inp.value), <<>>, <<>>))
         ELSE [ok |-> TRUE, cost |-> matching_node.v.cost]
    ELSE IF inp.path \notin DOMAIN nodes_by_path
    THEN Err(Error("UnknownPath", "No pricing node found for path",
                   inp.path, <<>>, key_order, <<>>))
    ELSE Err(Error("InvalidValueForPath", "Invalid value for path",
                   inp.path, JsonDisplay(inp.value),
                   AvailableValues(nodes_by_path[inp.path]), <<>>))

RECURSIVE InputCostsFrom(_, _, _, _)
RECURSIVE InputCostsNext(_, _, _, _, _)
\* the rest of the loop once the first input's cost c is known
InputCostsNext(c, final_cost_by_path, inputs, nodes, key_order) ==
    IF ~c.ok THEN c
    ELSE InputCostsFrom(Put(final_cost_by_path, inputs[1].path, c.cost),
                        Tail(inputs), nodes, key_order)

\* the loop without the contains_key check of lines 308-313: a repeated path
\* overwrites its cost
InputCostsOverwrite(final_cost_by_path, inputs, nodes, key_order) ==
    IF inputs = <<>> THEN [ok |-> TRUE, costs |-> final_cost_by_path]
    ELSE InputCostsNext(
            InputCost(inputs[1],
                      MatchingNode(LabelNodes(nodes), NumericNodes(nodes),
                                   inputs[1].path, ValueStr(inputs[1].value)),
                      NodesByPath(nodes), key_order),
            final_cost_by_path, inputs, nodes, key_order)

\* the loop of lines 306-362 over the inputs still to resolve; key_order is
\* the order in which nodes_by_path.keys() iterates
InputCostsFrom(final_cost_by_path, inputs, nodes, key_order) ==
    IF inputs = <<>> THEN [ok |-> TRUE, costs |-> final_cost_by_path]
    ELSE IF inputs[1].path \in DOMAIN final_cost_by_path
    THEN Err(Error("DuplicateInputPath", "Duplicate input for path",
                   inputs[1].path, <<>>, <<>>, <<>>))
    ELSE InputCostsNext(
            InputCost(inputs[1],
                      MatchingNode(LabelNodes(nodes), NumericNodes(nodes),
                                   inputs[1].path, ValueStr(inputs[1].value)),
                      NodesByPath(nodes), key_order),
            final_cost_by_path, inputs, nodes, key_order)

\* calculate_input_costs
CalculateInputCosts(inputs, nodes, key_order) ==
    InputCostsFrom(EmptyMap, inputs, nodes, key_order)

-----------------------------------------------------------------------------
(* Value resolver.  cost_order is the order in which final_cost_by_path    *)
(* iterates during the call.                                               *)

StepPrefix == <<"s", "t", "e", "p", "_", "_">>

RECURSIVE MatchingValuesFirst(_, _, _)
\* a filter that stops at the first matching path
MatchingValuesFirst(regex, final_cost_by_path, cost_order) ==
    IF cost_order = <<>> THEN <<>>
    ELSE IF IsMatch(regex, cost_order[1])
    THEN <<final_cost_by_path[cost_order[1]]>>
    ELSE MatchingValuesFirst(regex, final_cost_by_path, Tail(cost_order))

RECURSIVE MatchingValues(_, _, _)
\* the filter/map of lines 413-417, in iteration order
MatchingValues(regex, final_cost_by_path, cost_order) ==
    IF cost_order = <<>> THEN <<>>
    ELSE (IF IsMatch(regex, cost_order[1])
          THEN <<final_cost_by_path[cost_order[1]]>> ELSE <<>>)
         \o MatchingValues(regex, final_cost_by_path, Tail(cost_order))

\* lines 413-427, g being what get_regex returned
WildcardValues(g, pattern, matching_values, cost_order) ==
    IF matching_values = <<>>
    THEN [cache |-> g.cache,
          res |-> Err(Error("NoWildcardMatch",
                            "No inputs found matching wildcard pattern",
                            pattern, <<>>, cost_order, <<>>))]
    ELSE [cache |-> g.cache, res |-> [ok |-> TRUE, vals |-> matching_values]]

\* the regex and the values of the paths it matches
WildcardMatch(g, pattern, final_cost_by_path, cost_order) ==
    WildcardValues(g, pattern,
                   MatchingValues(g.regex, final_cost_by_path, cost_order),
                   cost_order)

\* resolve_wildcard_pattern
ResolveWildcardPattern(cache, pattern, final_cost_by_path, cost_order) ==
    WildcardMatch(GetRegex(cache, pattern), pattern, final_cost_by_path, cost_order)

\* a step reference that fails when no value is stored under the id
StepReferenceStrict(cache, s, step_id, step_values) ==
    IF ~step_id.some \/ step_id.v \notin DOMAIN step_values
    THEN [cache |-> cache,
          res |-> Err(Error("InvalidStepReference", "Invalid step reference",
                            s, <<>>, <<>>, <<>>))]
    ELSE [cache |-> cache,
          res |-> [ok |-> TRUE, vals |-> <<step_values[step_id.v]>>]]

\* lines 376-379: step_id is what parsing the text after "step__" gave
StepReference(cache, s, step_id, step_values) ==
    IF ~step_id.some
    THEN [cache |-> cache,
          res |-> Err(Error("InvalidStepReference", "Invalid step reference",
                            s, <<>>, <<>>, <<>>))]
    ELSE [cache |-> cache,
          res |-> [ok |-> TRUE, vals |-> <<GetOrZero(step_values, step_id.v)>>]]

\* lines 375-384: a string is a step reference, a wildcard pattern or a path
ResolveString(cache, s, step_values, final_cost_by_path, cost_order) ==
    IF StartsWith(s, StepPrefix)
    THEN StepReference(cache, s, ParseI32(SubSeq(s, 7, Len(s))), step_values)
    ELSE IF Contains(s, "*")
    THEN ResolveWildcardPattern(cache, s, final_cost_by_path, cost_order)
    ELSE [cache |-> cache,
          res |-> [ok |-> TRUE, vals |-> <<GetOrZero(final_cost_by_path, s)>>]]

\* a resolver that rejects a value that is neither a string nor a number
ResolveValueStrict(cache, value, step_values, final_cost_by_path, cost_order) ==
    IF AsStr(value).some
    THEN ResolveString(cache, AsStr(value).v, step_values, final_cost_by_path,
                       cost_order)
    ELSE IF AsF64(value).some
    THEN [cache |-> cache, res |-> [ok |-> TRUE, vals |-> <<AsF64(value).v>>]]
    ELSE [cache |-> cache,
          res |-> Err(Error("InvalidStepReference", "Invalid reference",
                            ValueStr(value), <<>>, <<>>, <<>>))]

\* resolve_value
ResolveValue(cache, value, step_values, final_cost_by_path, cost_order) ==
    IF AsStr(value).some
    THEN ResolveString(cache, AsStr(value).v, step_values, final_cost_by_path,
                       cost_order)
    ELSE IF AsF64(value).some
    THEN [cache |-> cache, res |-> [ok |-> TRUE, vals |-> <<AsF64(value).v>>]]
    ELSE [cache |-> cache, res |-> [ok |-> TRUE, vals |-> <<Zero>>]]

RECURSIVE ResolveInputsFrom(_, _, _, _, _, _)
RECURSIVE ResolveInputsNext(_, _, _, _, _, _)
\* lines 531-532 once the first item resolved to r
ResolveInputsNext(r, resolved, inputs, step_values, final_cost_by_path, cost_order) ==
    IF ~r.res.ok THEN r
    ELSE ResolveInputsFrom(r.cache, resolved \o r.res.vals, Tail(inputs),
                           step_values, final_cost_by_path, cost_order)

\* the loop of resolve_inputs over the items still to resolve
ResolveInputsFrom(cache, resolved, inputs, step_values, final_cost_by_path, cost_order) ==
    IF inputs = <<>> THEN [cache |-> cache, res |-> [ok |-> TRUE, vals |-> resolved]]
    ELSE ResolveInputsNext(
            ResolveValue(cache, inputs[1], step_values, final_cost_by_path,
                         cost_order),
            resolved, inputs, step_values, final_cost_by_path, cost_order)

\* resolve_inputs
ResolveInputs(cache, inputs, step_values, final_cost_by_path, cost_order) ==
    ResolveInputsFrom(cache, <<>>, inputs, step_values, final_cost_by_path,
                      cost_order)

-----------------------------------------------------------------------------
(* Steps.                                                                  *)

Add(id, name, inputs) ==
    [mode |-> "add", id |-> id, name |-> name, inputs |-> inputs]

Subtract(id, name, inputs) ==
    [mode |-> "subtract", id |-> id, name |-> name, inputs |-> inputs]

Multiply(id, name, inputs) ==
    [mode |-> "multiply", id |-> id, name |-> name, inputs |-> inputs]

Divide(id, name, inputs) ==
    [mode |-> "divide", id |-> id, name |-> name, inputs |-> inputs]

Min(id, name, inputs) ==
    [mode |-> "min", id |-> id, name |-> name, inputs |-> inputs]

Max(id, name, inputs) ==
    [mode |-> "max", id |-> id, name |-> name, inputs |-> inputs]

Percentage(id, name, inputs, percent) ==
    [mode |-> "percentage", id |-> id, name |-> name, inputs |-> inputs,
     percent |-> percent]

Round(id, name, inputs, decimals) ==
    [mode |-> "round", id |-> id, name |-> name, inputs |-> inputs,
     decimals |-> decimals]

Clamp(id, name, value, min, max) ==
    [mode |-> "clamp", id |-> id, name |-> name, value |-> value, min |-> min,
     max |-> max]

Condition(left, operator, right) ==
    [left |-> left, operator |-> operator, right |-> right]

If(id, name, condition, then, else_) ==
    [mode |-> "if", id |-> id, name |-> name, condition |-> condition,
     then |-> then, else_ |-> else_]

\* Step::id
StepId(step) == step.id

\* Step::name: the given name, else "Step {id}"
StepName(step) ==
    IF step.name.some THEN step.name.v
    ELSE <<"S", "t", "e", "p", " ">> \o IntToStr(step.id)

PricingStrategy(version, required_inputs, steps) ==
    [version |-> version, required_inputs |-> required_inputs, steps |-> steps]

BreakdownEntry(step, operation, inputs, result) ==
    [step_id |-> step.id, name |-> StepName(step), operation |-> operation,
     inputs |-> inputs, result |-> result]

\* Ok((result, BreakdownEntry {..})) of a step, with the cache it leaves
StepOk(cache, step, operation, inputs, result) ==
    [cache |-> cache,
     res |-> [ok |-> TRUE, result |-> result,
              entry |-> BreakdownEntry(step, operation, inputs, result)]]

\* Err(format!("{}: ...", step_name)) of a step
StepErr(cache, step, kind, msg, nums) ==
    [cache |-> cache,
     res |-> Err(Error(kind, msg, StepName(step), <<>>, <<>>, nums))]

-----------------------------------------------------------------------------
(* Step executor.                                                          *)

RECURSIVE Sum(_)
Sum(vals) == IF vals = <<>> THEN Zero ELSE RAdd(Sum(SubSeq(vals, 1, Len(vals) - 1)),
                                                vals[Len(vals)])

RECURSIVE SubtractAll(_, _)
SubtractAll(result, vals) ==
    IF vals = <<>> THEN result ELSE SubtractAll(RSub(result, vals[1]), Tail(vals))

RECURSIVE Product(_, _)
Product(result, vals) ==
    IF vals = <<>> THEN result ELSE Product(RMul(result, vals[1]), Tail(vals))

RECURSIVE DivideAllSkip(_, _)
\* a division loop that passes over a zero divisor
DivideAllSkip(result, vals) ==
    IF vals = <<>> THEN Some(result)
    ELSE IF vals[1] = Zero THEN DivideAllSkip(result, Tail(vals))
    ELSE DivideAllSkip(RDiv(result, vals[1]), Tail(vals))

RECURSIVE DivideAll(_, _)
\* the loop of lines 676-681: None at the first zero divisor
DivideAll(result, vals) ==
    IF vals = <<>> THEN Some(result)
    ELSE IF vals[1] = Zero THEN None
    ELSE DivideAll(RDiv(result, vals[1]), Tail(vals))

RECURSIVE FoldMin(_, _)
FoldMin(acc, vals) ==
    IF vals = <<>> THEN acc ELSE FoldMin(RMin(acc, vals[1]), Tail(vals))

RECURSIVE FoldMax(_, _)
FoldMax(acc, vals) ==
    IF vals = <<>> THEN acc ELSE FoldMax(RMax(acc, vals[1]), Tail(vals))

\* process_add once its inputs resolved to r
AddResolved(step, r) ==
    IF ~r.res.ok THEN r
    ELSE IF r.res.vals = <<>>
    THEN StepErr(r.cache, step, "OperatorArityError",
                 "add requires at least one input", <<>>)
    ELSE StepOk(r.cache, step, "Addition", r.res.vals, Sum(r.res.vals))

\* process_add
ProcessAdd(cache, step, step_values, final_cost_by_path, cost_order) ==
    AddResolved(step,
        ResolveInputs(cache, step.inputs, step_values, final_cost_by_path,
                      cost_order))

\* process_subtract once its inputs resolved to r
SubtractResolved(step, r) ==
    IF ~r.res.ok THEN r
    ELSE IF r.res.vals = <<>>
    THEN StepErr(r.cache, step, "OperatorArityError",
                 "subtract requires at least one input", <<>>)
    ELSE StepOk(r.cache, step, "Subtraction", r.res.vals,
                SubtractAll(r.res.vals[1], Tail(r.res.vals)))

\* process_subtract
ProcessSubtract(cache, step, step_values, final_cost_by_path, cost_order) ==
    SubtractResolved(step,
        ResolveInputs(cache, step.inputs, step_values, final_cost_by_path,
                      cost_order))

\* process_multiply once its inputs resolved to r
MultiplyResolved(step, r) ==
    IF ~r.res.ok THEN r
    ELSE IF r.res.vals = <<>>
    THEN StepErr(r.cache, step, "OperatorArityError",
                 "multiply requires at least one input", <<>>)
    ELSE StepOk(r.cache, step, "Multiplication", r.res.vals,
                Product(Rat(1), r.res.vals))

\* process_multiply
ProcessMultiply(cache, step, step_values, final_cost_by_path, cost_order) ==
    MultiplyResolved(step,
        ResolveInputs(cache, step.inputs, step_values, final_cost_by_path,
                      cost_order))

\* lines 675-704: the quotient q, None after a zero divisor
DivideResult(step, r, q) ==
    IF ~q.some
    THEN StepErr(r.cache, step, "DivisionByZero", "division by zero", <<>>)
    ELSE StepOk(r.cache, step, "Division", r.res.vals, q.v)

\* process_divide once its inputs resolved to r
DivideResolved(step, r) ==
    IF ~r.res.ok THEN r
    ELSE IF Len(r.res.vals) < 2
    THEN StepErr(r.cache, step, "OperatorArityError",
                 "divide requires at least two inputs", <<>>)
    ELSE DivideResult(step, r, DivideAll(r.res.vals[1], Tail(r.res.vals)))

\* process_divide
ProcessDivide(cache, step, step_values, final_cost_by_path, cost_order) ==
    DivideResolved(step,
        ResolveInputs(cache, step.inputs, step_values, final_cost_by_path,
                      cost_order))

\* process_min; the fold from +infinity over a non-empty list is the fold
\* from its first element once its inputs resolved to r
MinResolved(step, r) ==
    IF ~r.res.ok THEN r
    ELSE IF r.res.vals = <<>>
    THEN StepErr(r.cache, step, "OperatorArityError",
                 "min requires at least one input", <<>>)
    ELSE StepOk(r.cache, step, "Minimum", r.res.vals,
                FoldMin(r.res.vals[1], Tail(r.res.vals)))

\* process_min; the fold from +infinity over a non-empty list is the fold
\* from its first element
ProcessMin(cache, step, step_values, final_cost_by_path, cost_order) ==
    MinResolved(step,
        ResolveInputs(cache, step.inputs, step_values, final_cost_by_path,
                      cost_order))

\* process_max; the fold from -infinity over a non-empty list is the fold
\* from its first element once its inputs resolved to r
MaxResolved(step, r) ==
    IF ~r.res.ok THEN r
    ELSE IF r.res.vals = <<>>
    THEN StepErr(r.cache, step, "OperatorArityError",
                 "max requires at least one input", <<>>)
    ELSE StepOk(r.cache, step, "Maximum", r.res.vals,
                FoldMax(r.res.vals[1], Tail(r.res.vals)))

\* process_max; the fold from -infinity over a non-empty list is the fold
\* from its first element
ProcessMax(cache, step, step_values, final_cost_by_path, cost_order) ==
    MaxResolved(step,
        ResolveInputs(cache, step.inputs, step_values, final_cost_by_path,
                      cost_order))

\* a percentage that is not divided by 100
PercentageOfRaw(step, r, calc_percent) ==
    IF RLt(calc_percent, Zero)
    THEN StepErr(r.cache, step, "NegativePercent",
                 "percentage cannot be negative", <<calc_percent>>)
    ELSE StepOk(r.cache, step, "Percentage", r.res.vals,
                RMul(r.res.vals[1], calc_percent))

\* lines 822-843 with the percent chosen
PercentageOf(step, r, calc_percent) ==
    IF RLt(calc_percent, Zero)
    THEN StepErr(r.cache, step, "NegativePercent",
                 "percentage cannot be negative", <<calc_percent>>)
    ELSE StepOk(r.cache, step, "Percentage", r.res.vals,
                RDiv(RMul(r.res.vals[1], calc_percent), Rat(100)))

\* a choice of the percent that prefers the step's percent field to the
\* second resolved value
PercentageResolvedField(step, r) ==
    IF ~r.res.ok THEN r
    ELSE IF Len(r.res.vals) \in {1, 2} /\ step.percent.some
    THEN PercentageOf(step, r, step.percent.v)
    ELSE IF Len(r.res.vals) = 1
    THEN StepErr(r.cache, step, "OperatorArityError",
                 "percentage requires percent in step or two inputs", <<>>)
    ELSE IF Len(r.res.vals) = 2
    THEN PercentageOf(step, r, r.res.vals[2])
    ELSE StepErr(r.cache, step, "OperatorArityError",
                 "percentage allows only one or two inputs", <<>>)

\* process_percentage once its inputs resolved to r
PercentageResolved(step, r) ==
    IF ~r.res.ok THEN r
    ELSE IF Len(r.res.vals) = 1
    THEN IF ~step.percent.some
         THEN StepErr(r.cache, step, "OperatorArityError",
                      "percentage requires percent in step or two inputs", <<>>)
         ELSE PercentageOf(step, r, step.percent.v)
    ELSE IF Len(r.res.vals) = 2
    THEN PercentageOf(step, r, r.res.vals[2])
    ELSE StepErr(r.cache, step, "OperatorArityError",
                 "percentage allows only one or two inputs", <<>>)

\* process_percentage
ProcessPercentage(cache, step, step_values, final_cost_by_path, cost_order) ==
    PercentageResolved(step,
        ResolveInputs(cache, step.inputs, step_values, final_cost_by_path,
                      cost_order))

\* lines 876-891 with the value, the decimals and the multiplier chosen
RoundTo(step, r, value, multiplier) ==
    StepOk(r.cache, step, "Round", r.res.vals,
           RDiv(RRound(RMul(value, multiplier)), multiplier))

\* process_round once its inputs resolved to r
RoundResolved(step, r) ==
    IF ~r.res.ok THEN r
    ELSE IF Len(r.res.vals) = 1
    THEN IF ~step.decimals.some
         THEN StepErr(r.cache, step, "OperatorArityError",
                      "round requires decimals in step or two inputs", <<>>)
         ELSE RoundTo(step, r, r.res.vals[1], Powi10(step.decimals.v))
    ELSE IF Len(r.res.vals) = 2
    THEN RoundTo(step, r, r.res.vals[1], Powi10(RTrunc(r.res.vals[2])))
    ELSE StepErr(r.cache, step, "OperatorArityError",
                 "round allows only one or two inputs", <<>>)

\* process_round
ProcessRound(cache, step, step_values, final_cost_by_path, cost_order) ==
    RoundResolved(step,
        ResolveInputs(cache, step.inputs, step_values, final_cost_by_path,
                      cost_order))

\* a clamp that applies the upper bound only
ClampResultUpper(cache, step, val, min_val, max_val) ==
    IF RGt(min_val, max_val)
    THEN StepErr(cache, step, "InvalidClampRange",
                 "min value cannot be greater than max value",
                 <<min_val, max_val>>)
    ELSE StepOk(cache, step, "Clamp", <<val, min_val, max_val>>,
                RMin(val, max_val))

\* lines 911-945: the range check and the clamp of val into [min_val, max_val]
ClampResult(cache, step, val, min_val, max_val) ==
    IF RGt(min_val, max_val)
    THEN StepErr(cache, step, "InvalidClampRange",
                 "min value cannot be greater than max value",
                 <<min_val, max_val>>)
    ELSE StepOk(cache, step, "Clamp", <<val, min_val, max_val>>,
                RMin(RMax(val, min_val), max_val))

\* line 909 onward: max resolved to rmax
ClampMax(step, val, min_val, rmax) ==
    IF ~rmax.res.ok THEN rmax
    ELSE ClampResult(rmax.cache, step, val, min_val, rmax.res.vals[1])

\* line 908 onward: min resolved to rmin
ClampMin(step, val, rmin, step_values, final_cost_by_path, cost_order) ==
    IF ~rmin.res.ok THEN rmin
    ELSE ClampMax(step, val, rmin.res.vals[1],
                  ResolveValue(rmin.cache, step.max, step_values,
                               final_cost_by_path, cost_order))

\* line 907 onward: value resolved to rv
ClampValue(step, rv, step_values, final_cost_by_path, cost_order) ==
    IF ~rv.res.ok THEN rv
    ELSE ClampMin(step, rv.res.vals[1],
                  ResolveValue(rv.cache, step.min, step_values,
                               final_cost_by_path, cost_order),
                  step_values, final_cost_by_path, cost_order)

\* process_clamp
ProcessClamp(cache, step, step_values, final_cost_by_path, cost_order) ==
    ClampValue(step,
               ResolveValue(cache, step.value, step_values, final_cost_by_path,
                            cost_order),
               step_values, final_cost_by_path, cost_order)

Operators == {">", "<", ">=", "<=", "==", "!="}

\* a match that takes ">=" for ">" and "<=" for "<"
CompareStrict(operator, left_val, right_val) ==
    CASE operator = ">" -> RGt(left_val, right_val)
      [] operator = "<" -> RLt(left_val, right_val)
      [] operator = ">=" -> RGt(left_val, right_val)
      [] operator = "<=" -> RLt(left_val, right_val)
      [] operator = "==" -> left_val = right_val
      [] operator = "!=" -> left_val # right_val

\* the match of lines 963-969 on a supported operator
Compare(operator, left_val, right_val) ==
    CASE operator = ">" -> RGt(left_val, right_val)
      [] operator = "<" -> RLt(left_val, right_val)
      [] operator = ">=" -> RGe(left_val, right_val)
      [] operator = "<=" -> RLe(left_val, right_val)
      [] operator = "==" -> left_val = right_val
      [] operator = "!=" -> left_val # right_val

\* lines 985-1010: the selected branch
IfResult(cache, step, condition_result, left_val, right_val, then_val, else_val) ==
    StepOk(cache, step, "Conditional", <<left_val, right_val, then_val, else_val>>,
           IF condition_result THEN then_val ELSE else_val)

\* an If that lets an else that does not resolve pass when then is selected
IfElseLazy(step, condition_result, left_val, right_val, then_val, re) ==
    IF ~re.res.ok /\ ~condition_result THEN re
    ELSE IfResult(re.cache, step, condition_result, left_val, right_val, then_val,
                  IF re.res.ok THEN re.res.vals[1] ELSE Zero)

\* lines 979-983 onward: else resolved to re (to 0.0 when absent)
IfElse(step, condition_result, left_val, right_val, then_val, re) ==
    IF ~re.res.ok THEN re
    ELSE IfResult(re.cache, step, condition_result, left_val, right_val, then_val,
                  re.res.vals[1])

\* line 978 onward: then resolved to rt
IfThen(step, condition_result, left_val, right_val, rt, step_values, final_cost_by_path, cost_order) ==
    IF ~rt.res.ok THEN rt
    ELSE IfElse(step, condition_result, left_val, right_val, rt.res.vals[1],
                IF step.else_.some
                THEN ResolveValue(rt.cache, step.else_.v, step_values,
                                  final_cost_by_path, cost_order)
                ELSE [cache |-> rt.cache,
                      res |-> [ok |-> TRUE, vals |-> <<Zero>>]])

\* lines 963-976 onward: the operator is matched, then `then` is resolved
IfCondition(cache, step, left_val, right_val, step_values, final_cost_by_path, cost_order) ==
    IF step.condition.operator \notin Operators
    THEN StepErr(cache, step, "UnsupportedConditionOperator",
                 "unsupported operator", <<>>)
    ELSE IfThen(step, Compare(step.condition.operator, left_val, right_val),
                left_val, right_val,
                ResolveValue(cache, step.then, step_values, final_cost_by_path,
                             cost_order),
                step_values, final_cost_by_path, cost_order)

\* line 961 onward: right resolved to rr
IfRight(step, left_val, rr, step_values, final_cost_by_path, cost_order) ==
    IF ~rr.res.ok THEN rr
    ELSE IfCondition(rr.cache, step, left_val, rr.res.vals[1], step_values,
                     final_cost_by_path, cost_order)

\* line 960 onward: left resolved to rl
IfLeft(step, rl, step_values, final_cost_by_path, cost_order) ==
    IF ~rl.res.ok THEN rl
    ELSE IfRight(step, rl.res.vals[1],
                 ResolveValue(rl.cache, step.condition.right, step_values,
                              final_cost_by_path, cost_order),
                 step_values, final_cost_by_path, cost_order)

\* process_if
ProcessIf(cache, step, step_values, final_cost_by_path, cost_order) ==
    IfLeft(step,
           ResolveValue(cache, step.condition.left, step_values,
                        final_cost_by_path, cost_order),
           step_values, final_cost_by_path, cost_order)

\* process_step
ProcessStep(cache, step, step_values, final_cost_by_path, cost_order) ==
    CASE step.mode = "add" ->
            ProcessAdd(cache, step, step_values, final_cost_by_path, cost_order)
      [] step.mode = "subtract" ->
            ProcessSubtract(cache, step, step_values, final_cost_by_path, cost_order)
      [] step.mode = "multiply" ->
            ProcessMultiply(cache, step, step_values, final_cost_by_path, cost_order)
      [] step.mode = "divide" ->
            ProcessDivide(cache, step, step_values, final_cost_by_path, cost_order)
      [] step.mode = "min" ->
            ProcessMin(cache, step, step_values, final_cost_by_path, cost_order)
      [] step.mode = "max" ->
            ProcessMax(cache, step, step_values, final_cost_by_path, cost_order)
      [] step.mode = "percentage" ->
            ProcessPercentage(cache, step, step_values, final_cost_by_path,
                              cost_order)
      [] step.mode = "round" ->
            ProcessRound(cache, step, step_values, final_cost_by_path, cost_order)
      [] step.mode = "clamp" ->
            ProcessClamp(cache, step, step_values, final_cost_by_path, cost_order)
      [] step.mode = "if" ->
            ProcessIf(cache, step, step_values, final_cost_by_path, cost_order)

-----------------------------------------------------------------------------
(* Strategy driver: PricingEngine::calculate as a state machine.           *)

VARIABLES
    regex_cache,        \* PricingEngine.regex_cache: pattern -> compiled regex
    pc,                 \* position of the call in progress
    pricing_nodes,      \* arguments of the call in progress
    pricing_strategy,
    inputs,
    final_cost_by_path, \* locals of calculate
    cost_order,         \* iteration order of final_cost_by_path in this call
    step_values,
    breakdown,
    i,                  \* position of the for loop of line 217 (1-based)
    result,             \* what the call returned, once it has
    raised,             \* history: the errors raised during the call
    computed,           \* history: the values process_step returned, in order
    prev                \* history: an earlier finished call (arguments, outcome)

vars == <<regex_cache, pc, pricing_nodes, pricing_strategy, inputs,
          final_cost_by_path, cost_order, step_values, breakdown, i, result,
          raised, computed, prev>>

args == <<pricing_nodes, pricing_strategy, inputs>>

locals == <<final_cost_by_path, cost_order, step_values, breakdown, i>>

NoStrategy == PricingStrategy(0, None, <<>>)

\* PricingEngine::new, before any call
Init ==
    /\ regex_cache = EmptyMap
    /\ pc = "idle"
    /\ pricing_nodes = <<>>
    /\ pricing_strategy = NoStrategy
    /\ inputs = <<>>
    /\ final_cost_by_path = EmptyMap
    /\ cost_order = <<>>
    /\ step_values = EmptyMap
    /\ breakdown = <<>>
    /\ i = 1
    /\ result = None
    /\ raised = <<>>
    /\ computed = <<>>
    /\ prev = None

\* a store that keeps the value already held under the step's id
StoreStepValueOnce(values, step, value) ==
    IF StepId(step) \in DOMAIN values THEN values
    ELSE Put(values, StepId(step), value)

\* line 220: the result is stored under the step's declared id
StoreStepValue(values, step, value) == Put(values, StepId(step), value)

\* a final price read from the first step's id
FinalPriceOfFirst(strategy, values) ==
    IF strategy.steps # <<>>
    THEN GetOrZero(values, strategy.steps[1].id)
    ELSE Zero

\* lines 225-229: the stored value of the last step's id, 0.0 without steps
FinalPrice(strategy, values) ==
    IF strategy.steps # <<>>
    THEN GetOrZero(values, StepId(strategy.steps[Len(strategy.steps)]))
    ELSE Zero

\* Ok(CalculationResult { final_price, breakdown })
CalculationResult(final_price, entries) ==
    [ok |-> TRUE, final_price |-> final_price, breakdown |-> entries]

\* a driver that drops the result of validate_required_inputs
ValidatedAnyway(v) ==
    /\ regex_cache' = v.cache
    /\ pc' = "validated"
    /\ result' = None
    /\ raised' = <<>>

\* line 203: `?` on what validate_required_inputs returned
Validated(v) ==
    /\ regex_cache' = v.cache
    /\ IF v.res.ok
       THEN /\ pc' = "validated"
            /\ result' = None
            /\ raised' = <<>>
       ELSE /\ pc' = "failed"
            /\ result' = Some(v.res)
            /\ raised' = <<v.res.error>>

\* lines 199-203: the call is entered and the required inputs are validated
Calculate(nodes, strategy, ins) ==
    /\ pc = "idle"
    /\ Validated(ValidateRequiredInputs(regex_cache, strategy, ins))
    /\ pricing_nodes' = nodes
    /\ pricing_strategy' = strategy
    /\ inputs' = ins
    /\ UNCHANGED <<locals, computed, prev>>

\* the orders of nodes_by_path.keys() that can show in the outcome: the keys
\* are listed only by the unknown-path error of lines 343-347
KeyOrders(nodes, ins) ==
    IF \E k \in 1..Len(ins) : ins[k].path \notin DOMAIN NodesByPath(nodes)
    THEN Orders(DOMAIN NodesByPath(nodes))
    ELSE {<<>>}

\* a step's reference values
StepRefs(step) ==
    CASE step.mode = "clamp" -> <<step.value, step.min, step.max>>
      [] step.mode = "if" ->
            <<step.condition.left, step.condition.right, step.then>>
            \o (IF step.else_.some THEN <<step.else_.v>> ELSE <<>>)
      [] OTHER -> step.inputs

\* the strategy holds a wildcard reference, which iterates final_cost_by_path
HasWildcard(strategy) ==
    \E k \in 1..Len(strategy.steps) :
        \E r \in 1..Len(StepRefs(strategy.steps[k])) :
            LET ref == StepRefs(strategy.steps[k])[r]
            IN  ref.t = "str" /\ Contains(ref.s, "*")

\* the iteration orders of final_cost_by_path that the call can observe: the
\* map is iterated only by resolve_wildcard_pattern (lines 413-420); a call
\* that never iterates it carries no order
CostOrders(costs, strategy) ==
    IF HasWildcard(strategy) THEN Orders(DOMAIN costs) ELSE {<<>>}

\* line 211: `?` on what calculate_input_costs returned
Costed(c) ==
    IF c.ok
    THEN /\ \E o \in CostOrders(c.costs, pricing_strategy) : cost_order' = o
         /\ final_cost_by_path' = c.costs
         /\ pc' = "evaluating"
         /\ UNCHANGED <<result, raised>>
    ELSE /\ pc' = "failed"
         /\ result' = Some(c)
         /\ raised' = Append(raised, c.error)
         /\ UNCHANGED <<final_cost_by_path, cost_order>>

\* lines 205-215: the per-path cost table is built, or the call fails
CalculateCosts ==
    /\ pc = "validated"
    /\ \E key_order \in KeyOrders(pricing_nodes, inputs) :
          Costed(CalculateInputCosts(inputs, pricing_nodes, key_order))
    /\ UNCHANGED <<regex_cache, args, step_values, breakdown, i, computed, prev>>

\* a loop that notes a step's error and goes on to the next step
SteppedOn(step, p) ==
    /\ regex_cache' = p.cache
    /\ i' = i + 1
    /\ IF p.res.ok
       THEN /\ step_values' = Put(step_values, step.id, p.res.result)
            /\ breakdown' = Append(breakdown, p.res.entry)
            /\ computed' = Append(computed, p.res.result)
            /\ UNCHANGED <<pc, result, raised>>
       ELSE /\ raised' = Append(raised, p.res.error)
            /\ UNCHANGED <<pc, result, step_values, breakdown, computed>>

\* a loop that puts each breakdown entry in front of the earlier ones
SteppedFront(step, p) ==
    /\ regex_cache' = p.cache
    /\ IF p.res.ok
       THEN /\ step_values' = Put(step_values, step.id, p.res.result)
            /\ breakdown' = <<p.res.entry>> \o breakdown
            /\ computed' = Append(computed, p.res.result)
            /\ i' = i + 1
            /\ UNCHANGED <<pc, result, raised>>
       ELSE /\ pc' = "failed"
            /\ result' = Some(p.res)
            /\ raised' = Append(raised, p.res.error)
            /\ UNCHANGED <<step_values, breakdown, computed, i>>

\* lines 219-221: `?` on what process_step returned, then the two inserts
Stepped(step, p) ==
    /\ regex_cache' = p.cache
    /\ IF p.res.ok
       THEN /\ step_values' = StoreStepValue(step_values, step, p.res.result)
            /\ breakdown' = Append(breakdown, p.res.entry)
            /\ computed' = Append(computed, p.res.result)
            /\ i' = i + 1
            /\ UNCHANGED <<pc, result, raised>>
       ELSE /\ pc' = "failed"
            /\ result' = Some(p.res)
            /\ raised' = Append(raised, p.res.error)
            /\ UNCHANGED <<step_values, breakdown, computed, i>>

\* lines 217-222: one iteration of the loop over the steps
CalculateStep ==
    /\ pc = "evaluating"
    /\ i <= Len(pricing_strategy.steps)
    /\ Stepped(pricing_strategy.steps[i],
               ProcessStep(regex_cache, pricing_strategy.steps[i], step_values,
                           final_cost_by_path, cost_order))
    /\ UNCHANGED <<args, final_cost_by_path, cost_order, prev>>

\* lines 224-234: after the last step the result is returned
CalculateEnd ==
    /\ pc = "evaluating"
    /\ i > Len(pricing_strategy.steps)
    /\ pc' = "done"
    /\ result' = Some(CalculationResult(FinalPrice(pricing_strategy, step_values),
                                        breakdown))
    /\ UNCHANGED <<regex_cache, args, locals, raised, computed, prev>>

\* the caller has the result; the call's locals are dropped, the cache stays
Forget ==
    /\ pricing_nodes' = <<>>
    /\ pricing_strategy' = NoStrategy
    /\ inputs' = <<>>
    /\ final_cost_by_path' = EmptyMap
    /\ cost_order' = <<>>
    /\ step_values' = EmptyMap
    /\ breakdown' = <<>>
    /\ i' = 1
    /\ result' = None
    /\ raised' = <<>>
    /\ computed' = <<>>
    /\ pc' = "idle"
    /\ UNCHANGED regex_cache

Return ==
    /\ pc \in {"done", "failed"}
    /\ Forget
    /\ UNCHANGED prev

-----------------------------------------------------------------------------
(* The explored calls: bounded families of (nodes, strategy, inputs).      *)

\* all sequences over S of length at most n
RECURSIVE SeqsUpTo(_, _)
SeqsUpTo(S, n) ==
    IF n = 0 THEN {<<>>}
    ELSE LET shorter == SeqsUpTo(S, n - 1)
         IN  shorter \cup {Append(q, x) : q \in shorter, x \in S}

PathV == <<"/", "v">>

PathT == <<"/", "t">>

PathQ == <<"/", "q">>

PathMAC == <<"/", "m", "/", "a", "/", "c">>

PathMBC == <<"/", "m", "/", "b", "/", "c">>

\* /m/*/c
WildMC == <<"/", "m", "/", "*", "/", "c">>

\* /z/*
WildZ == <<"/", "z", "/", "*">>

Blue == <<"b", "l", "u", "e">>

Red == <<"r", "e", "d">>

\* step__1, step__2, step__x
Step1Ref == JStr(StepPrefix \o <<"1">>)

Step2Ref == JStr(StepPrefix \o <<"2">>)

StepXRef == JStr(StepPrefix \o <<"x">>)

\* a catalog with one node per key
NodesA ==
    << PricingNode(PathV, "numeric", Rat(10), None),
       PricingNode(PathT, "numeric", Norm(1, 2), None),
       PricingNode(PathMAC, "label", Rat(3), Some(JStr(Blue))),
       PricingNode(PathMAC, "label", Rat(2), Some(JStr(Red))),
       PricingNode(PathMBC, "label", Rat(7), Some(JStr(Blue))) >>

\* a catalog with label and numeric nodes at one path, repeated keys, a
\* numeric label value and a label node without value
NodesB ==
    << PricingNode(PathV, "numeric", Rat(10), None),
       PricingNode(PathV, "label", Rat(7), Some(JNum(2))),
       PricingNode(PathV, "label", Rat(9), Some(JStr(<<"3">>))),
       PricingNode(PathV, "numeric", Rat(5), None),
       PricingNode(PathMAC, "label", Rat(30), Some(JStr(Blue))),
       PricingNode(PathMAC, "label", Rat(40), Some(JStr(Blue))),
       PricingNode(PathT, "label", Rat(1), Some(JBool(TRUE))),
       PricingNode(PathQ, "label", Rat(8), None) >>

InputPool ==
    { Input(PathV, JNum(2)), Input(PathV, JStr(<<"3">>)),
      Input(PathT, JBool(TRUE)), Input(PathMAC, JStr(Blue)),
      Input(PathMBC, JStr(Blue)), Input(PathQ, JNum(1)),
      Input(PathMAC, JStr(Red)) }

RequiredPool == { None, Some(<<WildMC, PathV>>) }

\* calls that exercise the required-input gate and the input cost resolver
CostCalls ==
    { <<nodes, PricingStrategy(1, req, <<Add(1, None, <<JStr(WildMC), JStr(PathV)>>)>>),
        ins>> :
        nodes \in {NodesA, NodesB},
        req \in RequiredPool,
        ins \in SeqsUpTo(InputPool, MaxInputs) }

\* /m/a/c -> 3, /m/b/c -> 7
StepInputs == << Input(PathMAC, JStr(Blue)), Input(PathMBC, JStr(Blue)) >>

RefPool ==
    { JNum(0), JNum(-3), JStr(PathMAC), JStr(WildMC), JStr(WildZ), Step1Ref,
      StepXRef }

ArithSteps ==
    { [mode |-> m, id |-> 1, name |-> None, inputs |-> refs] :
        m \in {"add", "subtract", "multiply", "divide", "min", "max"},
        refs \in SeqsUpTo(RefPool, MaxRefs) }
    \cup { Percentage(1, None, refs, pct) :
            refs \in SeqsUpTo(RefPool, MaxRefs),
            pct \in {None, Some(Rat(15)), Some(Rat(-5))} }
    \cup { Round(1, None, <<ref>>, dec) :
            ref \in RefPool \ {JStr(WildMC)}, dec \in {None, Some(1)} }

\* calls of one arithmetic step over generated reference lists
ArithCalls ==
    { <<NodesA, PricingStrategy(1, None, <<step>>), StepInputs>> :
        step \in ArithSteps }

ClampRefs ==
    { JNum(-3), JNum(0), JNum(5), JStr(PathMAC), JStr(WildMC), JStr(WildZ),
      Step1Ref }

\* calls of one clamp step
ClampCalls ==
    { <<NodesA, PricingStrategy(1, None, <<Clamp(1, None, v, lo, hi)>>), StepInputs>> :
        v \in ClampRefs, lo \in ClampRefs, hi \in ClampRefs }

StepPool ==
    { Add(1, None, <<JNum(5)>>),
      Add(2, Some(<<"n">>), <<Step1Ref, JStr(PathMAC)>>),
      Add(1, None, <<>>),
      Subtract(2, None, <<Step2Ref, JNum(1)>>),
      Multiply(1, None, <<JNum(2), Step1Ref>>),
      Divide(2, None, <<JNum(6), Step1Ref>>),
      Max(1, None, <<Step1Ref, Step2Ref, JStr(PathQ)>>),
      Percentage(2, None, <<Step1Ref>>, Some(Rat(50))),
      Round(1, None, <<Step1Ref, JNum(0)>>, None),
      Clamp(2, None, Step1Ref, JNum(0), JNum(4)),
      If(1, None, Condition(Step1Ref, ">", JNum(3)), Step1Ref, Some(JStr(WildZ))),
      If(2, None, Condition(Step2Ref, "=", JNum(0)), JNum(1), None) }

\* calls of several steps that refer to each other
MultiCalls ==
    { <<NodesA, PricingStrategy(1, None, steps), StepInputs>> :
        steps \in SeqsUpTo(StepPool, MaxSteps) }

-----------------------------------------------------------------------------
(* The worked example of src/rust/examples/main.rs.                        *)

\* "/material"
ExMaterial ==
    <<"/", "m", "a", "t", "e", "r", "i", "a", "l">>

\* "/material/resin/color"
ExResinColor ==
    <<"/", "m", "a", "t", "e", "r", "i", "a", "l", "/", "r", "e", "s", "i",
      "n", "/", "c", "o", "l", "o", "r">>

\* "/material/pla/color"
ExPlaColor ==
    <<"/", "m", "a", "t", "e", "r", "i", "a", "l", "/", "p", "l", "a", "/",
      "c", "o", "l", "o", "r">>

\* "/volume"
ExVolume ==
    <<"/", "v", "o", "l", "u", "m", "e">>

\* "/time_taken"
ExTimeTaken ==
    <<"/", "t", "i", "m", "e", "_", "t", "a", "k", "e", "n">>

\* "/material/*/color"
ExAnyColor ==
    <<"/", "m", "a", "t", "e", "r", "i", "a", "l", "/", "*", "/", "c", "o",
      "l", "o", "r">>

StepRef(k) == JStr(StepPrefix \o IntToStr(k))

ExampleNodes ==
    << PricingNode(ExMaterial, "label", Rat(100), Some(JStr(<<"t", "p", "a">>))),
       PricingNode(ExMaterial, "label", Rat(20), Some(JStr(<<"p", "l", "a">>))),
       PricingNode(ExMaterial, "label", Rat(0),
                   Some(JStr(<<"r", "e", "s", "i", "n">>))),
       PricingNode(ExResinColor, "label", Rat(30), Some(JStr(Red))),
       PricingNode(ExResinColor, "label", Rat(30), Some(JStr(Blue))),
       PricingNode(ExPlaColor, "label", Rat(300), Some(JStr(Blue))),
       PricingNode(ExVolume, "numeric", Rat(10), None),
       PricingNode(ExTimeTaken, "numeric", Rat(100), None) >>

\* the step names are "Base Cost Calculation", "Apply Markup", "Conditional
\* Pricing", "Calculate 15% Tax", "Total with Tax", "Apply Discount" and
\* "Clamp Final Price"
ExampleStrategy ==
    PricingStrategy(1, Some(<<ExVolume, ExTimeTaken, ExAnyColor>>),
        << Add(1,
               Some(<<"B", "a", "s", "e", " ", "C", "o", "s", "t", " ", "C",
                      "a", "l", "c", "u", "l", "a", "t", "i", "o", "n">>),
               <<JStr(ExVolume), JStr(ExTimeTaken), JStr(ExAnyColor)>>),
           Multiply(2,
               Some(<<"A", "p", "p", "l", "y", " ", "M", "a", "r", "k", "u",
                      "p">>),
               <<JNum(2), StepRef(1)>>),
           If(3,
               Some(<<"C", "o", "n", "d", "i", "t", "i", "o", "n", "a", "l",
                      " ", "P", "r", "i", "c", "i", "n", "g">>),
               Condition(StepRef(2), ">", JNum(200)), StepRef(2), Some(JNum(0))),
           Percentage(4,
               Some(<<"C", "a", "l", "c", "u", "l", "a", "t", "e", " ", "1",
                      "5", "%", " ", "T", "a", "x">>),
               <<StepRef(3), JNum(15)>>, None),
           Add(5,
               Some(<<"T", "o", "t", "a", "l", " ", "w", "i", "t", "h", " ",
                      "T", "a", "x">>),
               <<StepRef(3), StepRef(4)>>),
           Subtract(6,
               Some(<<"A", "p", "p", "l", "y", " ", "D", "i", "s", "c", "o",
                      "u", "n", "t">>),
               <<StepRef(5), JNum(10)>>),
           Clamp(7,
               Some(<<"C", "l", "a", "m", "p", " ", "F", "i", "n", "a", "l",
                      " ", "P", "r", "i", "c", "e">>),
               StepRef(6), JNum(50), JNum(500)) >>)

ExampleInputs ==
    << Input(ExVolume, JNum(2)),
       Input(ExTimeTaken, JNum(1)),
       Input(ExResinColor, JStr(Blue)) >>

\* the example's inputs and variations of them: other volumes, other colours
ExampleInputsPool ==
    {ExampleInputs}
    \cup { << Input(ExVolume, JNum(v)),
              Input(ExTimeTaken, JNum(1)),
              Input(c[1], JStr(c[2])) >> :
            v \in {1, 2, 30},
            c \in { <<ExResinColor, Blue>>, <<ExResinColor, Red>>,
                    <<ExPlaColor, Blue>>, <<ExPlaColor, Red>> } }

ExampleCalls ==
    { <<ExampleNodes, ExampleStrategy, ins>> : ins \in ExampleInputsPool }

-----------------------------------------------------------------------------
(* Specification.                                                          *)

Calls == CostCalls \cup ArithCalls \cup ClampCalls \cup MultiCalls

CalculateAny == \E c \in Calls : Calculate(c[1], c[2], c[3])

Next ==
    \/ CalculateAny
    \/ CalculateCosts
    \/ CalculateStep
    \/ CalculateEnd
    \/ Return

Spec == Init /\ [][Next]_vars

\* the engine serving the calls of the worked example
CalculateExample == \E c \in ExampleCalls : Calculate(c[1], c[2], c[3])

NextExample ==
    \/ CalculateExample
    \/ CalculateCosts
    \/ CalculateStep
    \/ CalculateEnd
    \/ Return

SpecExample == Init /\ [][NextExample]_vars

-----------------------------------------------------------------------------
(* What a caller can tell of the call in progress.                         *)

Steps == pricing_strategy.steps

Finished == pc \in {"done", "failed"}

\* no provided input path matches the pattern
Unmatched(pattern, ins) ==
    \A k \in 1..Len(ins) : ~IsMatch(RegexStr(pattern), ins[k].path)

\* every required pattern is matched by some input path
GatePasses ==
    pricing_strategy.required_inputs.some =>
        \A k \in 1..Len(pricing_strategy.required_inputs.v) :
            ~Unmatched(pricing_strategy.required_inputs.v[k], inputs)

HasDuplicatePath(ins) ==
    \E a, b \in 1..Len(ins) : a < b /\ ins[a].path = ins[b].path

\* the position of the first input whose path an earlier input has
FirstRepeat(ins) ==
    CHOOSE b \in 1..Len(ins) :
        /\ \E a \in 1..(b - 1) : ins[a].path = ins[b].path
        /\ \A c \in 1..(b - 1) : \A a \in 1..(c - 1) : ins[a].path # ins[c].path

\* the catalog positions of the label nodes of the input's (path, value text)
LabelHits(nodes, inp) ==
    {n \in 1..Len(nodes) :
        /\ nodes[n].node_type # "numeric"
        /\ nodes[n].value.some
        /\ nodes[n].path = inp.path
        /\ ValueStr(nodes[n].value.v) = ValueStr(inp.value)}

\* the catalog positions of the numeric nodes of the input's path
NumericHits(nodes, inp) ==
    {n \in 1..Len(nodes) :
        nodes[n].node_type = "numeric" /\ nodes[n].path = inp.path}

Last(S) == CHOOSE n \in S : \A m \in S : m <= n

\* the input has a cost: a label node of its value, or a numeric node and a
\* numeric value
Priced(nodes, inp) ==
    \/ LabelHits(nodes, inp) # {}
    \/ NumericHits(nodes, inp) # {} /\ inp.value.t = "num"

\* the gate passes and the cost table is built
CostsResolve ==
    /\ GatePasses
    /\ ~HasDuplicatePath(inputs)
    /\ \A k \in 1..Len(inputs) : Priced(pricing_nodes, inputs[k])

\* the call failed in process_step
StepFailed == pc = "failed" /\ CostsResolve

RECURSIVE ValuesAfter(_)
\* the step-value table once the first k steps have run
ValuesAfter(k) ==
    IF k = 0 THEN EmptyMap
    ELSE Put(ValuesAfter(k - 1), Steps[k].id, computed[k])

\* what a reference of step k resolves to
Resolved(ref, k) ==
    ResolveValue(regex_cache, ref, ValuesAfter(k - 1), final_cost_by_path,
                 cost_order).res

\* what the inputs list of step k resolves to
ResolvedInputs(k) ==
    ResolveInputs(regex_cache, Steps[k].inputs, ValuesAfter(k - 1),
                  final_cost_by_path, cost_order).res

-----------------------------------------------------------------------------
(* Properties.                                                             *)

\* C1: a successful call returns as final_price the value computed for the
\* last step of the step list; with an empty step list it succeeds with
\* final_price 0 and an empty breakdown.
C1_FinalPrice ==
    pc = "done" =>
        /\ result.some /\ result.v.ok
        /\ Len(computed) = Len(Steps)
        /\ IF Steps = <<>>
           THEN result.v.final_price = Zero /\ result.v.breakdown = <<>>
           ELSE result.v.final_price = computed[Len(Steps)]

\* a successful call of two steps whose values differ
C1_Witness ==
    /\ pc = "done"
    /\ Len(Steps) = 2
    /\ computed[1] # computed[2]
    /\ result.v.final_price = computed[2]

\* C2: when some required pattern is matched by no provided input path, the
\* call fails with the missing-required-input error that names the first such
\* pattern, and at no point of the call has a step run: the step-value table
\* and the breakdown are still empty.
C2_RequiredGate ==
    (pc # "idle" /\ ~GatePasses) =>
        /\ pc = "failed"
        /\ Len(raised) = 1
        /\ raised[1].kind = "MissingRequiredInput"
        /\ Unmatched(raised[1].subject, inputs)
        /\ \E k \in 1..Len(pricing_strategy.required_inputs.v) :
              /\ pricing_strategy.required_inputs.v[k] = raised[1].subject
              /\ \A j \in 1..(k - 1) :
                    ~Unmatched(pricing_strategy.required_inputs.v[j], inputs)
        /\ step_values = EmptyMap
        /\ breakdown = <<>>
        /\ computed = <<>>

\* a call with inputs and steps that the gate rejects on its second pattern
C2_Witness ==
    /\ pc = "failed"
    /\ raised[1].kind = "MissingRequiredInput"
    /\ inputs # <<>>
    /\ Steps # <<>>
    /\ raised[1].subject = pricing_strategy.required_inputs.v[2]

\* C3, as amended: a call whose input list holds two inputs of one path always
\* fails before any step; the error is the duplicate-input-path error, naming
\* the first repeated path, exactly when the required-input gate passes and
\* every input before the first repeated one has a cost; otherwise it is the
\* error met earlier.
C3_Duplicate ==
    (Finished /\ HasDuplicatePath(inputs)) =>
        /\ pc = "failed"
        /\ computed = <<>>
        /\ raised[1].kind = "DuplicateInputPath" <=>
              /\ GatePasses
              /\ \A k \in 1..(FirstRepeat(inputs) - 1) :
                    Priced(pricing_nodes, inputs[k])
        /\ raised[1].kind = "DuplicateInputPath" =>
              raised[1].subject = inputs[FirstRepeat(inputs)].path
        /\ raised[1].kind \in
              {"DuplicateInputPath", "MissingRequiredInput", "UnknownPath",
               "InvalidValueForPath", "NonNumericInputForNumericNode"}

\* a call that fails on the second of two inputs of one path
C3_Witness ==
    /\ pc = "failed"
    /\ HasDuplicatePath(inputs)
    /\ raised[1].kind = "DuplicateInputPath"
    /\ raised[1].subject = inputs[2].path

\* C3, as stated: every finished call whose input list holds two inputs of one
\* path has failed with the duplicate-input-path error.
C3_AsStated ==
    (Finished /\ HasDuplicatePath(inputs)) =>
        (pc = "failed" /\ raised[1].kind = "DuplicateInputPath")

\* C4: in the cost table, an input whose (path, value text) has a label node
\* costs that node's cost, even when the path also has a numeric node and the
\* value is a number; any other input costs its numeric value times the cost
\* of the numeric node of its path (of the last such node of the catalog, when
\* the catalog repeats a key).
C4_InputCost ==
    /\ pc \in {"evaluating", "done"} =>
          DOMAIN final_cost_by_path = {inputs[k].path : k \in 1..Len(inputs)}
    /\ \A k \in 1..Len(inputs) :
          inputs[k].path \in DOMAIN final_cost_by_path =>
              IF LabelHits(pricing_nodes, inputs[k]) # {}
              THEN final_cost_by_path[inputs[k].path] =
                      pricing_nodes[Last(LabelHits(pricing_nodes, inputs[k]))].cost
              ELSE /\ NumericHits(pricing_nodes, inputs[k]) # {}
                   /\ inputs[k].value.t = "num"
                   /\ final_cost_by_path[inputs[k].path] =
                         RMul(Rat(inputs[k].value.k),
                              pricing_nodes[Last(NumericHits(pricing_nodes,
                                                             inputs[k]))].cost)

\* a cost table with a numeric input value that a label node takes although
\* its path has a numeric node, beside an input priced by a label alone
C4_Witness ==
    /\ pc = "evaluating"
    /\ Len(inputs) = 2
    /\ inputs[1].value.t = "num"
    /\ LabelHits(pricing_nodes, inputs[1]) # {}
    /\ NumericHits(pricing_nodes, inputs[1]) # {}
    /\ final_cost_by_path[inputs[1].path] # RMul(Rat(inputs[1].value.k),
            pricing_nodes[Last(NumericHits(pricing_nodes, inputs[1]))].cost)

\* C5: an error is raised at most once in a call and ends it: the call returns
\* that error alone, without final price or breakdown, the steps before the
\* failing one are the only ones that ran, and the error belongs to the first
\* phase that fails (gate, then input costs, then the steps in order).
C5_FailFast ==
    /\ raised # <<>> => pc = "failed"
    /\ pc = "failed" =>
          /\ Len(raised) = 1
          /\ result = Some(Err(raised[1]))
          /\ Len(computed) = i - 1
          /\ Len(breakdown) = i - 1
          /\ raised[1].kind = "MissingRequiredInput" <=> ~GatePasses
          /\ raised[1].kind \in {"DuplicateInputPath", "UnknownPath",
                                 "InvalidValueForPath",
                                 "NonNumericInputForNumericNode"}
                <=> (GatePasses /\ ~CostsResolve)
          /\ ~CostsResolve => computed = <<>>
          /\ CostsResolve => i <= Len(Steps)

\* a call that fails in its second step, after a first step that gave a value
C5_Witness ==
    /\ pc = "failed"
    /\ Len(Steps) = 2
    /\ i = 2
    /\ Len(computed) = 1
    /\ ~result.v.ok

\* C6: the breakdown holds one entry per step that ran, in step order, entry k
\* carrying the declared id of step k and the value computed for it (on
\* success: one entry per step of the list); and the value of step k is what
\* process_step gives from the step, the table of the earlier steps' values
\* and the cost table, of which the breakdown is no part.
C6_Breakdown ==
    /\ Len(breakdown) = Len(computed)
    /\ \A k \in 1..Len(breakdown) :
          /\ breakdown[k].step_id = Steps[k].id
          /\ breakdown[k].result = computed[k]
    /\ pc = "done" =>
          /\ result.v.breakdown = breakdown
          /\ Len(result.v.breakdown) = Len(Steps)
    /\ \A k \in 1..Len(computed) :
          LET p == ProcessStep(regex_cache, Steps[k], ValuesAfter(k - 1),
                               final_cost_by_path, cost_order).res
          IN  p.ok /\ p.result = computed[k]

\* a successful call of two steps of different ids and different values
C6_Witness ==
    /\ pc = "done"
    /\ Len(result.v.breakdown) = 2
    /\ Steps[1].id # Steps[2].id
    /\ result.v.breakdown[1].result # result.v.breakdown[2].result

\* the step values of the worked example
ExampleValues ==
    <<Rat(150), Rat(300), Rat(300), Rat(45), Rat(345), Rat(335), Rat(335)>>

\* C8: the call of the worked example never fails, its steps give 150, 300,
\* 300, 45, 345, 335, 335 in that order, and it ends with final_price 335.
C8_WorkedExample ==
    args = <<ExampleNodes, ExampleStrategy, ExampleInputs>> =>
        /\ pc # "failed"
        /\ Len(computed) <= Len(ExampleValues)
        /\ computed = SubSeq(ExampleValues, 1, Len(computed))
        /\ pc = "done" =>
              /\ computed = ExampleValues
              /\ result.v.final_price = Rat(335)
              /\ Len(result.v.breakdown) = Len(ExampleValues)

\* the worked example has returned
C8_Witness ==
    /\ pc = "done"
    /\ args = <<ExampleNodes, ExampleStrategy, ExampleInputs>>
    /\ result.v.final_price = Rat(335)

ArityOne == {"add", "subtract", "multiply", "min", "max"}

\* C9: no Add, Subtract, Multiply, Min or Max step gives a value from an empty
\* list of resolved values, and no Divide step gives one from fewer than two
\* values or from a list with a zero after its first value; a call that fails
\* in such a step fails with the arity error, respectively the
\* division-by-zero error.
C9_Arity ==
    /\ \A k \in 1..Len(computed) :
          /\ Steps[k].mode \in ArityOne => Len(ResolvedInputs(k).vals) >= 1
          /\ Steps[k].mode = "divide" =>
                /\ Len(ResolvedInputs(k).vals) >= 2
                /\ \A j \in 2..Len(ResolvedInputs(k).vals) :
                      ResolvedInputs(k).vals[j] # Zero
    /\ (StepFailed /\ Steps[i].mode \in ArityOne /\ ResolvedInputs(i).ok) =>
          /\ ResolvedInputs(i).vals = <<>>
          /\ raised[1].kind = "OperatorArityError"
    /\ (StepFailed /\ Steps[i].mode = "divide" /\ ResolvedInputs(i).ok) =>
          IF Len(ResolvedInputs(i).vals) < 2
          THEN raised[1].kind = "OperatorArityError"
          ELSE /\ raised[1].kind = "DivisionByZero"
               /\ \E j \in 2..Len(ResolvedInputs(i).vals) :
                     ResolvedInputs(i).vals[j] = Zero

\* a Divide step of two resolved values, the second zero, has failed
C9_Witness ==
    /\ StepFailed
    /\ Steps[i].mode = "divide"
    /\ ResolvedInputs(i).ok
    /\ Len(ResolvedInputs(i).vals) = 2
    /\ ResolvedInputs(i).vals[2] = Zero
    /\ raised[1].kind = "DivisionByZero"

\* value, min and max of the Clamp step k all resolve
ClampResolves(k) ==
    /\ Resolved(Steps[k].value, k).ok
    /\ Resolved(Steps[k].min, k).ok
    /\ Resolved(Steps[k].max, k).ok

\* C10: a Clamp step that gives a result has resolved min <= resolved max, the
\* result lies in [min, max], is the value when the value lies in the range,
\* min when the value is below min and max when it is above max; a Clamp step
\* whose value, min and max resolve fails exactly when min > max, with the
\* invalid-range error.
C10_Clamp ==
    /\ \A k \in 1..Len(computed) :
          Steps[k].mode = "clamp" =>
              LET val == Resolved(Steps[k].value, k).vals[1]
                  min_val == Resolved(Steps[k].min, k).vals[1]
                  max_val == Resolved(Steps[k].max, k).vals[1]
              IN  /\ ClampResolves(k)
                  /\ RLe(min_val, max_val)
                  /\ RLe(min_val, computed[k]) /\ RLe(computed[k], max_val)
                  /\ (RLe(min_val, val) /\ RLe(val, max_val)) => computed[k] = val
                  /\ RLt(val, min_val) => computed[k] = min_val
                  /\ RGt(val, max_val) => computed[k] = max_val
    /\ (StepFailed /\ Steps[i].mode = "clamp" /\ ClampResolves(i)) =>
          /\ RGt(Resolved(Steps[i].min, i).vals[1], Resolved(Steps[i].max, i).vals[1])
          /\ raised[1].kind = "InvalidClampRange"

\* a Clamp step has raised a value below its range to min
C10_Witness ==
    /\ pc = "done"
    /\ Steps # <<>>
    /\ Steps[1].mode = "clamp"
    /\ RLt(Resolved(Steps[1].value, 1).vals[1], Resolved(Steps[1].min, 1).vals[1])
    /\ RLt(Resolved(Steps[1].min, 1).vals[1], Resolved(Steps[1].max, 1).vals[1])
    /\ computed[1] = Resolved(Steps[1].min, 1).vals[1]

-----------------------------------------------------------------------------
(* Repeated calls on one engine: a finished call may be remembered and     *)
(* compared with a later call of the same arguments.                       *)

\* what the caller gets: the error, or the final price and the step ids and
\* results of the breakdown
Outcome ==
    IF pc = "done"
    THEN [ok |-> TRUE, final_price |-> result.v.final_price,
          entries |-> [k \in 1..Len(result.v.breakdown) |->
                          <<result.v.breakdown[k].step_id,
                            result.v.breakdown[k].result>>]]
    ELSE [ok |-> FALSE, error |-> result.v.error]

\* the caller has the result and keeps it, with the arguments and the cache
\* the call left
ReturnRemember ==
    /\ Finished
    /\ prev' = Some([args |-> args, outcome |-> Outcome, cache |-> regex_cache])
    /\ Forget

\* the wildcard patterns among the strategy's references
WildcardRefs(strategy) ==
    {p \in UNION {{StepRefs(strategy.steps[k])[r].s :
                      r \in {q \in 1..Len(StepRefs(strategy.steps[k])) :
                                StepRefs(strategy.steps[k])[q].t = "str"}} :
                  k \in 1..Len(strategy.steps)} :
        Contains(p, "*") /\ ~StartsWith(p, StepPrefix)}

\* no wildcard of the strategy matches more than one input path
SingleMatch(strategy, ins) ==
    \A p \in WildcardRefs(strategy) :
        Cardinality({ins[k].path : k \in {j \in 1..Len(ins) :
                                            IsMatch(RegexStr(p), ins[j].path)}}) <= 1

\* the calls that are repeated
RepeatCalls ==
    { <<NodesA, PricingStrategy(1, None, <<Add(1, None, <<JStr(WildZ)>>)>>),
        StepInputs>>,
      <<NodesA, PricingStrategy(1, None, <<Add(1, None, <<JStr(WildMC)>>)>>),
        <<Input(PathMAC, JStr(Blue))>> >>,
      <<NodesA,
        PricingStrategy(1, Some(<<WildMC>>),
            << Multiply(1, None, <<JNum(2), JStr(WildMC)>>),
               Subtract(2, None, <<Step1Ref, JNum(1)>>) >>),
        <<Input(PathMBC, JStr(Blue)), Input(PathV, JNum(2))>> >>,
      <<NodesA, PricingStrategy(1, Some(<<WildMC>>), <<>>),
        <<Input(PathV, JNum(2))>> >>,
      <<NodesA, PricingStrategy(1, None, <<Add(1, None, <<JNum(5)>>)>>),
        <<Input(PathQ, JNum(1))>> >>,
      <<NodesA, PricingStrategy(1, None, <<Subtract(1, None, <<JStr(WildMC)>>)>>),
        StepInputs>> }

CalculateRepeat == \E c \in RepeatCalls : Calculate(c[1], c[2], c[3])

NextRepeat ==
    \/ CalculateRepeat
    \/ CalculateCosts
    \/ CalculateStep
    \/ CalculateEnd
    \/ Return
    \/ ReturnRemember

SpecRepeat == Init /\ [][NextRepeat]_vars

\* the set of the elements of a sequence
Range(q) == {q[k] : k \in 1..Len(q)}

\* an outcome without the order in which an unknown-path or no-wildcard-match
\* error lists the keys of a hash map
Unlisted(o) ==
    IF o.ok THEN o
    ELSE [ok |-> FALSE,
          error |-> [o.error EXCEPT
                        !.listing = IF o.error.kind \in {"UnknownPath", "NoWildcardMatch"}
                                    THEN <<>> ELSE @],
          listed |-> Range(o.error.listing)]

\* the call in progress has finished, an earlier call of the same arguments is
\* remembered, and no wildcard of the strategy matches more than one input
RepeatedCall ==
    /\ Finished
    /\ prev.some
    /\ prev.v.args = args
    /\ SingleMatch(pricing_strategy, inputs)

\* C7, as amended: a call gives what an earlier call of the same arguments on
\* the same engine gave, whatever was called in between and whatever the cache
\* holds, when no wildcard matches more than one input path: the same final
\* price, step ids and results, or the same error up to the order in which an
\* unknown-path or no-wildcard-match error lists the available paths.
C7_Repeatable ==
    RepeatedCall => Unlisted(Outcome) = Unlisted(prev.v.outcome)

\* a call with a wildcard has given a price again, with a pattern in the
\* cache that was not there when the remembered call returned
C7_Witness ==
    /\ RepeatedCall
    /\ pc = "done"
    /\ WildcardRefs(pricing_strategy) # {}
    /\ DOMAIN regex_cache # DOMAIN prev.v.cache
    /\ Outcome = prev.v.outcome

\* C7, as stated: a call gives exactly the outcome, error included, that an
\* earlier call of the same arguments gave.
C7_AsStated ==
    RepeatedCall => Outcome = prev.v.outcome

-----------------------------------------------------------------------------
(* Calls of one If step.                                                   *)

\* the six supported operators and two that are not
IfOperators == Operators \cup {"=", "=>"}

\* one If step over /m/a/c -> 3, /m/b/c -> 7: the condition compares 2 or 3
\* with 2 or 3; the branches are literals, a wildcard without match, a text
\* after step__ that is no number, or absent
IfCalls ==
    { <<NodesA,
        PricingStrategy(1, None,
            <<If(1, None, Condition(left, op, right), then, else_)>>),
        StepInputs>> :
        op \in IfOperators,
        left \in {JNum(2), JStr(PathMAC), StepXRef},
        right \in {JNum(2), JNum(3)},
        then \in {JNum(5), JStr(PathMBC), JStr(WildZ), StepXRef},
        else_ \in {None, Some(JNum(5)), Some(JNum(9)), Some(JStr(WildZ)),
                  Some(StepXRef)} }

CalculateIf == \E c \in IfCalls : Calculate(c[1], c[2], c[3])

NextIf ==
    \/ CalculateIf
    \/ CalculateCosts
    \/ CalculateStep
    \/ CalculateEnd
    \/ Return

SpecIf == Init /\ [][NextIf]_vars

\* the comparison left <op> right of two rationals, for a supported operator
Holds(op, l, r) ==
    CASE op = ">" -> l.n * r.d > r.n * l.d
      [] op = "<" -> l.n * r.d < r.n * l.d
      [] op = ">=" -> ~(l.n * r.d < r.n * l.d)
      [] op = "<=" -> ~(l.n * r.d > r.n * l.d)
      [] op = "==" -> l.n * r.d = r.n * l.d
      [] op = "!=" -> l.n * r.d # r.n * l.d

\* the resolved else-value of the If step k, 0 when else is absent
ElseValue(k) ==
    IF Steps[k].else_.some THEN Resolved(Steps[k].else_.v, k).vals[1] ELSE Zero

\* the condition of the If step k, whose operator is supported, holds
ConditionHolds(k) ==
    Holds(Steps[k].condition.operator,
          Resolved(Steps[k].condition.left, k).vals[1],
          Resolved(Steps[k].condition.right, k).vals[1])

\* the indices of the If steps that gave a result
IfResults == {k \in 1..Len(computed) : Steps[k].mode = "if"}

\* C11, as amended: an If step that gives a result has one of the six
\* operators; its result is the resolved then-value when left <op> right
\* holds and the resolved else-value (0 when else is absent) when it does not;
\* an If step whose left and right resolve and whose operator is none of the
\* six fails with the unsupported-operator error.
C11_IfSelects ==
    /\ \A k \in IfResults :
          /\ Steps[k].condition.operator \in {">", "<", ">=", "<=", "==", "!="}
          /\ computed[k] = IF ConditionHolds(k)
                           THEN Resolved(Steps[k].then, k).vals[1]
                           ELSE ElseValue(k)
    /\ (/\ StepFailed
        /\ Steps[i].mode = "if"
        /\ Resolved(Steps[i].condition.left, i).ok
        /\ Resolved(Steps[i].condition.right, i).ok
        /\ Steps[i].condition.operator \notin {">", "<", ">=", "<=", "==", "!="})
       => raised[1].kind = "UnsupportedConditionOperator"

\* an If step with ">=" over equal sides has given its then-value, which
\* differs from its else-value
C11_Witness ==
    /\ pc = "done"
    /\ IfResults = {1}
    /\ Steps[1].condition.operator = ">="
    /\ Resolved(Steps[1].condition.left, 1).vals[1]
          = Resolved(Steps[1].condition.right, 1).vals[1]
    /\ computed[1] = Resolved(Steps[1].then, 1).vals[1]
    /\ computed[1] # ElseValue(1)

\* C11, as stated: the result of an If step equals the resolved then-value if
\* and only if the comparison holds.
C11_AsStated ==
    \A k \in IfResults :
        (computed[k] = Resolved(Steps[k].then, k).vals[1]) <=> ConditionHolds(k)

-----------------------------------------------------------------------------
(* Calls whose steps each add one reference to a literal that tells the    *)
(* step's position.                                                        *)

\* (id, reference) of a step: null, a boolean, a path without input, a path
\* with a cost, a wildcard without match, step references to the ids 1 and 2
\* from steps of either id, and a text after step__ that is no number
RefPairs ==
    { <<1, JNull>>, <<2, JBool(TRUE)>>, <<1, JStr(PathQ)>>, <<2, JStr(PathMAC)>>,
      <<2, JStr(WildZ)>>, <<1, Step1Ref>>, <<2, Step1Ref>>, <<1, Step2Ref>>,
      <<2, Step2Ref>>, <<1, StepXRef>> }

RECURSIVE RefStepLists(_)
\* the step lists of n steps: step k adds its reference to the literal 10 * k
RefStepLists(n) ==
    IF n = 0 THEN {<<>>}
    ELSE {Append(q, Add(p[1], None, <<p[2], JNum(10 * n)>>)) :
            q \in RefStepLists(n - 1), p \in RefPairs}

RefCalls ==
    { <<NodesA, PricingStrategy(1, None, steps), StepInputs>> :
        steps \in UNION {RefStepLists(n) : n \in 1..(MaxSteps + 1)} }

CalculateRef == \E c \in RefCalls : Calculate(c[1], c[2], c[3])

NextRef ==
    \/ CalculateRef
    \/ CalculateCosts
    \/ CalculateStep
    \/ CalculateEnd
    \/ Return

SpecRef == Init /\ [][NextRef]_vars

\* the reference of step k
Ref(k) == Steps[k].inputs[1]

\* the literal of step k, as a number
Literal(k) == Rat(Steps[k].inputs[2].k)

IsStepRef(r) == r.t = "str" /\ StartsWith(r.s, StepPrefix)

\* the id a step reference names, if its text after step__ is a number
RefId(r) == ParseI32(SubSeq(r.s, 7, Len(r.s)))

\* the positions before k of the steps declared with the id
Earlier(id, k) == {m \in 1..(k - 1) : Steps[m].id = id}

\* a step reference to an id under which no step before k stored a value
UnstoredStep(r, k) ==
    IsStepRef(r) /\ RefId(r).some /\ Earlier(RefId(r).v, k) = {}

\* an exact path that is not in the per-path cost table
AbsentPath(r) ==
    /\ r.t = "str"
    /\ ~IsStepRef(r)
    /\ ~Contains(r.s, "*")
    /\ r.s \notin DOMAIN final_cost_by_path

\* a value that is neither a string nor a number
NoReference(r) == r.t \notin {"str", "num"}

\* a step reference whose text after step__ is no number
BadStepRef(r) == IsStepRef(r) /\ ~RefId(r).some

\* a wildcard pattern that no path of the cost table matches
NoMatch(r) ==
    /\ r.t = "str"
    /\ ~IsStepRef(r)
    /\ Contains(r.s, "*")
    /\ \A path \in DOMAIN final_cost_by_path : ~IsMatch(RegexStr(r.s), path)

\* C12, as amended: three kinds of reference that denote no value silently
\* resolve to 0: a step reference whose id has no stored value, an exact path
\* absent from the cost table, and a value that is neither a string nor a
\* number (null, a boolean); the two others, a step reference whose id is no
\* number and a wildcard without match, make the step fail.
C12_SilentZero ==
    /\ \A k \in 1..Len(computed) :
          /\ (UnstoredStep(Ref(k), k) \/ AbsentPath(Ref(k)) \/ NoReference(Ref(k)))
                => computed[k] = Literal(k)
          /\ ~BadStepRef(Ref(k))
          /\ ~NoMatch(Ref(k))
    /\ StepFailed =>
          /\ BadStepRef(Ref(i)) => raised[1].kind = "InvalidStepReference"
          /\ NoMatch(Ref(i)) => raised[1].kind = "NoWildcardMatch"
          /\ BadStepRef(Ref(i)) \/ NoMatch(Ref(i))

\* a call is done whose steps took 0 for null, for a path without input and
\* for a step reference without stored value
C12_Witness ==
    /\ pc = "done"
    /\ Len(computed) = 3
    /\ NoReference(Ref(1)) /\ computed[1] = Literal(1)
    /\ AbsentPath(Ref(2)) /\ computed[2] = Literal(2)
    /\ UnstoredStep(Ref(3), 3) /\ computed[3] = Literal(3)

\* C12, as stated: a reference that denotes no value and yet gave a step a
\* result is a step reference without stored value or an absent exact path.
C12_AsStated ==
    \A k \in 1..Len(computed) :
        (\/ NoReference(Ref(k))
         \/ UnstoredStep(Ref(k), k)
         \/ AbsentPath(Ref(k))
         \/ BadStepRef(Ref(k))
         \/ NoMatch(Ref(k)))
        => (UnstoredStep(Ref(k), k) \/ AbsentPath(Ref(k)))

\* the reference of step k names the id of step k or of a later step
ForwardOrSelf(k) ==
    /\ IsStepRef(Ref(k))
    /\ RefId(Ref(k)).some
    /\ \E m \in k..Len(Steps) : Steps[m].id = RefId(Ref(k)).v

\* C13, as amended: a step that references, via step__<id>, its own id or the
\* id of a step declared later receives 0 for that reference when no earlier
\* step is declared with that id, and the calculation does not fail at that
\* step.
C13_ForwardReference ==
    /\ \A k \in 1..Len(computed) :
          (ForwardOrSelf(k) /\ Earlier(RefId(Ref(k)).v, k) = {})
             => computed[k] = Literal(k)
    /\ StepFailed => ~ForwardOrSelf(i)

\* a call is done whose first step referenced its own id and whose second
\* step referenced the id of the third; both took 0
C13_Witness ==
    /\ pc = "done"
    /\ Len(computed) = 3
    /\ ForwardOrSelf(1) /\ RefId(Ref(1)).v = Steps[1].id
    /\ computed[1] = Literal(1)
    /\ ForwardOrSelf(2) /\ RefId(Ref(2)).v = Steps[3].id
    /\ Steps[3].id # Steps[2].id /\ Steps[3].id # Steps[1].id
    /\ computed[2] = Literal(2)

\* C13, as stated: a step that references its own id or the id of a later
\* step receives 0 for that reference.
C13_AsStated ==
    \A k \in 1..Len(computed) : ForwardOrSelf(k) => computed[k] = Literal(k)

\* the positions of the steps that gave a result and are declared with the id
Declared(id) == {m \in 1..Len(computed) : Steps[m].id = id}

\* step k references an id under which a step before it stored a value
StoredRef(k) ==
    /\ IsStepRef(Ref(k))
    /\ RefId(Ref(k)).some
    /\ Earlier(RefId(Ref(k)).v, k) # {}

\* C14: while the steps run and once they are done, the step-value table
\* holds, under each id declared by a step that has run, the result of the
\* last such step with that id, and nothing else; a step__k reference
\* resolves to the result of the last earlier step declared with the id k.
C14_StoredById ==
    /\ pc \in {"evaluating", "done"} =>
          /\ DOMAIN step_values = {Steps[m].id : m \in 1..Len(computed)}
          /\ \A id \in DOMAIN step_values :
                step_values[id] = computed[Last(Declared(id))]
    /\ \A k \in 1..Len(computed) :
          StoredRef(k) =>
             computed[k] = RAdd(computed[Last(Earlier(RefId(Ref(k)).v, k))],
                                Literal(k))

\* a call is done whose first two steps share an id that differs from their
\* positions and whose third step referenced that id and took the second
\* step's result
C14_Witness ==
    /\ pc = "done"
    /\ Len(computed) = 3
    /\ Steps[1].id = 2 /\ Steps[2].id = 2
    /\ IsStepRef(Ref(3)) /\ RefId(Ref(3)) = Some(2)
    /\ computed[1] # computed[2]
    /\ computed[3] = RAdd(computed[2], Literal(3))
    /\ step_values[2] = computed[2]

-----------------------------------------------------------------------------
(* Calls of one step over one string that contains '*'.                    *)

\* a path that starts like a step reference
PathStepA == StepPrefix \o <<"a">>

\* /*
WildTop == <<"/", "*">>

\* /m/*/*
WildMAny == <<"/", "m", "/", "*", "/", "*">>

\* step__*
WildStep == StepPrefix \o <<"*">>

NodesW ==
    NodesA \o << PricingNode(PathStepA, "label", Rat(5), Some(JStr(Blue))) >>

WildInputs ==
    { <<>>,
      << Input(PathMAC, JStr(Blue)) >>,
      << Input(PathV, JNum(2)) >>,
      << Input(PathStepA, JStr(Blue)) >>,
      << Input(PathMAC, JStr(Red)), Input(PathMBC, JStr(Blue)) >>,
      << Input(PathMAC, JStr(Blue)), Input(PathStepA, JStr(Blue)) >>,
      << Input(PathMAC, JStr(Blue)), Input(PathMBC, JStr(Blue)),
         Input(PathV, JNum(2)) >> }

WildCalls ==
    { <<NodesW,
        PricingStrategy(1, None,
            <<[mode |-> m, id |-> 1, name |-> None, inputs |-> <<JStr(w)>>]>>),
        ins>> :
        m \in {"add", "multiply", "min", "max"},
        w \in {WildMC, WildZ, WildTop, WildMAny, WildStep},
        ins \in WildInputs }

CalculateWild == \E c \in WildCalls : Calculate(c[1], c[2], c[3])

NextWild ==
    \/ CalculateWild
    \/ CalculateCosts
    \/ CalculateStep
    \/ CalculateEnd
    \/ Return

SpecWild == Init /\ [][NextWild]_vars

RECURSIVE Covers(_, _)
\* the pattern covers the whole path, each '*' standing for a non-empty run
\* of characters other than '/'
Covers(pattern, path) ==
    IF pattern = <<>> THEN path = <<>>
    ELSE IF path = <<>> THEN FALSE
    ELSE IF pattern[1] = "*"
    THEN /\ path[1] # "/"
         /\ (Covers(Tail(pattern), Tail(path)) \/ Covers(pattern, Tail(path)))
    ELSE pattern[1] = path[1] /\ Covers(Tail(pattern), Tail(path))

\* the paths of the cost table that the pattern covers
Covered(pattern) == {path \in DOMAIN final_cost_by_path : Covers(pattern, path)}

\* the values are the costs of the paths of S, one per path, in some order
CostsOf(values, S) ==
    /\ Len(values) = Cardinality(S)
    /\ \E o \in Orders(S) :
          \A j \in 1..Len(values) : values[j] = final_cost_by_path[o[j]]

\* the pattern of the call's one step
Pattern == Steps[1].inputs[1].s

\* the call's one step was reached and has given a result or failed
Resolution == pc \in {"done", "failed"} /\ CostsResolve

\* C15, as amended: a reference string that contains '*' and does not start
\* with step__ resolves to the costs of the entries of the per-path cost table
\* whose path matches the pattern, one value per matching path, and fails
\* exactly when no path of the table matches; a string that starts with step__
\* is a step reference even if it contains '*', and fails as one.
C15_Wildcard ==
    Resolution =>
        IF StartsWith(Pattern, StepPrefix)
        THEN pc = "failed" /\ raised[1].kind = "InvalidStepReference"
        ELSE /\ pc = "failed" <=> Covered(Pattern) = {}
             /\ pc = "failed" => raised[1].kind = "NoWildcardMatch"
             /\ pc = "done" => CostsOf(breakdown[1].inputs, Covered(Pattern))

\* a wildcard over a cost table of three paths has resolved to the costs of
\* the two paths it matches
C15_Witness ==
    /\ pc = "done"
    /\ Cardinality(DOMAIN final_cost_by_path) = 3
    /\ Cardinality(Covered(Pattern)) = 2
    /\ CostsOf(breakdown[1].inputs, Covered(Pattern))

\* C15, as stated: a reference string that contains '*' resolves to the costs
\* of the matching entries, and fails if and only if no path matches.
C15_AsStated ==
    Resolution =>
        /\ pc = "failed" <=> Covered(Pattern) = {}
        /\ pc = "done" => CostsOf(breakdown[1].inputs, Covered(Pattern))

-----------------------------------------------------------------------------
(* The matcher: one call per engine, whose required pattern and whose      *)
(* one step's reference are the pattern, over one input at the path.       *)

\* /material/pla/color/extra
ExtraPath == ExPlaColor \o <<"/", "e", "x", "t", "r", "a">>

\* /material//color
EmptySegmentPath == ExMaterial \o <<"/", "/", "c", "o", "l", "o", "r">>

\* /material/a/b/color
TwoSegmentPath ==
    ExMaterial \o <<"/", "a", "/", "b", "/", "c", "o", "l", "o", "r">>

\* the patterns over '/', 'a' and '*' and the paths over '/', 'a' and 'b', and
\* the pattern and the paths of the example
MatchPairs ==
    (SeqsUpTo({"/", "a", "*"}, MaxPattern) \X SeqsUpTo({"/", "a", "b"}, MaxPath))
    \cup ({ExAnyColor} \X {ExPlaColor, ExtraPath, EmptySegmentPath,
                          TwoSegmentPath})

\* the catalog prices the path, so that the call fails only at the gate or at
\* the wildcard
MatchCalls ==
    { << <<PricingNode(pp[2], "label", Rat(1), Some(JStr(Blue)))>>,
         PricingStrategy(1, Some(<<pp[1]>>), <<Add(1, None, <<JStr(pp[1])>>)>>),
         <<Input(pp[2], JStr(Blue))>> >> :
        pp \in MatchPairs }

\* the first call of an engine
CalculateMatch ==
    /\ regex_cache = EmptyMap
    /\ \E c \in MatchCalls : Calculate(c[1], c[2], c[3])

NextMatch ==
    \/ CalculateMatch
    \/ CalculateCosts
    \/ CalculateStep
    \/ CalculateEnd
    \/ Return

SpecMatch == Init /\ [][NextMatch]_vars

\* a call was entered
Entered == pc # "idle"

\* the call's required pattern
RequiredPattern == pricing_strategy.required_inputs.v[1]

\* the call's input path
InputPath == inputs[1].path

\* the gate found no input path that the required pattern matches
GateFailed == pc = "failed" /\ raised[1].kind = "MissingRequiredInput"

\* C16: the compiled pattern matches the path exactly when it covers the
\* whole path with each '*' standing for a non-empty run of characters other
\* than '/': the gate rejects the call in every other case, and the wildcard
\* step of an accepted call resolves to the cost of the path;
\* /material/*/color matches /material/pla/color and none of
\* /material/pla/color/extra, /material//color, /material/a/b/color.
C16_WholeSegment ==
    Entered =>
        /\ GateFailed <=> ~Covers(RequiredPattern, InputPath)
        /\ pc = "failed" => GateFailed
        /\ pc = "done" => breakdown[1].inputs = <<Rat(1)>>
        /\ RequiredPattern = ExAnyColor =>
              (GateFailed <=> InputPath \in {ExtraPath, EmptySegmentPath,
                                             TwoSegmentPath})

\* the call of /material/*/color over /material/pla/color is done
C16_Witness ==
    /\ pc = "done"
    /\ RequiredPattern = ExAnyColor
    /\ InputPath = ExPlaColor
    /\ breakdown[1].inputs = <<Rat(1)>>

-----------------------------------------------------------------------------
(* The pattern cache over a sequence of calls.                             *)

\* every pattern of the cache c is in the cache d, with the same matcher
Kept(c, d) == \A p \in DOMAIN c : p \in DOMAIN d /\ d[p] = c[p]

\* the cached matcher of each pattern matches the input paths of the call
\* that the pattern covers, and no other
OwnMatches ==
    \A p \in DOMAIN regex_cache :
        \A k \in 1..Len(inputs) :
            IsMatch(regex_cache[p], inputs[k].path) <=> Covers(p, inputs[k].path)

\* C17: over any sequence of calls on one engine, successful or failed, no
\* step removes or replaces an entry of the pattern cache, so a pattern is
\* inserted (compiled) at most once; the cache holds what it held when an
\* earlier call returned; the matcher cached for a pattern gives, at every
\* later resolution, the match results of that pattern; and a call succeeds
\* exactly if the earlier call of the same arguments did.
C17_CacheGrows ==
    /\ [][Kept(regex_cache, regex_cache')]_vars
    /\ [](prev.some => Kept(prev.v.cache, regex_cache))
    /\ []OwnMatches
    /\ []((Finished /\ prev.some /\ prev.v.args = args)
            => (pc = "done" <=> prev.v.outcome.ok))

\* a call has given a price again with a wildcard that was cached when the
\* remembered call returned, and the cache has grown since
C17_Witness ==
    /\ pc = "done"
    /\ prev.some
    /\ prev.v.args = args
    /\ WildcardRefs(pricing_strategy) # {}
    /\ WildcardRefs(pricing_strategy) \subseteq DOMAIN prev.v.cache
    /\ DOMAIN prev.v.cache # DOMAIN regex_cache
    /\ Kept(prev.v.cache, regex_cache)

-----------------------------------------------------------------------------
(* Percentage.                                                             *)

\* the percent that the Percentage step k uses over the resolved values:
\* with one value the step's percent field, with two the second value
PercentUsed(k, vals) ==
    IF Len(vals) = 1 THEN Steps[k].percent
    ELSE IF Len(vals) = 2 THEN Some(vals[2])
    ELSE None

\* the Percentage step k, whose inputs resolved to vals, gives a result
PercentageGives(k, vals) ==
    /\ Len(vals) \in {1, 2}
    /\ PercentUsed(k, vals).some
    /\ PercentUsed(k, vals).v.n >= 0

\* the steps that gave a result or failed, whose inputs resolved
Ran == {k \in 1..Len(Steps) :
          /\ k <= Len(computed) \/ (StepFailed /\ k = i)
          /\ Steps[k].mode = "percentage"
          /\ ResolvedInputs(k).ok}

\* C18: a Percentage step whose inputs resolve gives a result exactly when
\* they resolve to one value and the step has a percent field that is not
\* negative, or to two values of which the second is not negative; the result
\* times 100 is the first value times that percent; in every other case
\* (another count of values, no percent, a negative percent) the step fails.
C18_Percentage ==
    \A k \in Ran :
        /\ k <= Len(computed) <=> PercentageGives(k, ResolvedInputs(k).vals)
        /\ k <= Len(computed) =>
              RMul(computed[k], Rat(100))
                 = RMul(ResolvedInputs(k).vals[1],
                        PercentUsed(k, ResolvedInputs(k).vals).v)
        /\ (k > Len(computed) /\ Len(ResolvedInputs(k).vals) \in {1, 2}
            /\ PercentUsed(k, ResolvedInputs(k).vals).some)
              => raised[1].kind = "NegativePercent"
        /\ (k > Len(computed)
            /\ ~(Len(ResolvedInputs(k).vals) \in {1, 2}
                 /\ PercentUsed(k, ResolvedInputs(k).vals).some))
              => raised[1].kind = "OperatorArityError"

\* a Percentage step with a percent field whose inputs resolved to two values
\* has given the first value times the second, divided by 100
C18_Witness ==
    /\ pc = "done"
    /\ Ran = {1}
    /\ Steps[1].percent.some
    /\ Len(ResolvedInputs(1).vals) = 2
    /\ ResolvedInputs(1).vals[2] # Steps[1].percent.v
    /\ computed[1] # Zero
    /\ RMul(computed[1], Rat(100))
          = RMul(ResolvedInputs(1).vals[1], ResolvedInputs(1).vals[2])

-----------------------------------------------------------------------------
(* Inputs without cost.                                                    *)

\* the positions of the inputs without cost
Unpriced == {k \in 1..Len(inputs) : ~Priced(pricing_nodes, inputs[k])}

\* the first of them
FirstUnpriced == CHOOSE k \in Unpriced : \A m \in Unpriced : k <= m

\* the catalog positions of the nodes of the path
NodesAt(path) == {n \in 1..Len(pricing_nodes) : pricing_nodes[n].path = path}

\* the call is finished, the gate passed and the cost loop arrived at an input
\* without cost: no input before it is without cost or repeats a path
RejectedInput ==
    /\ Finished
    /\ GatePasses
    /\ Unpriced # {}
    /\ HasDuplicatePath(inputs) => FirstUnpriced < FirstRepeat(inputs)

\* the error kind for an input without cost
RejectionKind(inp) ==
    IF NumericHits(pricing_nodes, inp) # {}
    THEN "NonNumericInputForNumericNode"
    ELSE IF NodesAt(inp.path) = {} THEN "UnknownPath"
    ELSE "InvalidValueForPath"

\* C19: the input at which the cost loop finds no cost makes the call fail,
\* naming its path: with the unknown-path error when the catalog has no node
\* at the path, with the invalid-value error when it has nodes there but no
\* label node of the value and no numeric node, with the non-numeric-input
\* error when it has a numeric node there, no label node of the value, and
\* the value is no number; no cost table is made and no step runs.
C19_InputErrors ==
    RejectedInput =>
        /\ pc = "failed"
        /\ ~result.v.ok
        /\ final_cost_by_path = EmptyMap
        /\ computed = <<>>
        /\ raised[1].kind = RejectionKind(inputs[FirstUnpriced])
        /\ raised[1].subject = inputs[FirstUnpriced].path

\* a call has failed at its second input, whose path has label nodes of
\* other values only, with the invalid-value error that lists them
C19_Witness ==
    /\ pc = "failed"
    /\ RejectedInput
    /\ FirstUnpriced = 2
    /\ NodesAt(inputs[2].path) # {}
    /\ raised[1].kind = "InvalidValueForPath"
    /\ raised[1].listing # <<>>

-----------------------------------------------------------------------------
(* The branches of If.                                                     *)

\* the reference does not resolve: a step reference whose id is no number or
\* a wildcard without match
Fails(r) == BadStepRef(r) \/ NoMatch(r)

FailKind(r) ==
    IF BadStepRef(r) THEN "InvalidStepReference" ELSE "NoWildcardMatch"

\* the call's one step is an If step that has given a result or failed, with
\* a supported operator and a left and a right that resolve
Branching ==
    /\ pc \in {"done", "failed"}
    /\ CostsResolve
    /\ Steps[1].mode = "if"
    /\ Steps[1].condition.operator \in {">", "<", ">=", "<=", "==", "!="}
    /\ ~Fails(Steps[1].condition.left)
    /\ ~Fails(Steps[1].condition.right)

\* the else reference is there and does not resolve
ElseFails == Steps[1].else_.some /\ Fails(Steps[1].else_.v)

\* C20: an If step whose condition is evaluated fails exactly when its then
\* reference or its else reference does not resolve, whichever branch the
\* condition selects, with the error of then if then does not resolve and
\* with the error of else otherwise; the call then fails.
C20_BothBranches ==
    Branching =>
        /\ pc = "failed" <=> (Fails(Steps[1].then) \/ ElseFails)
        /\ pc = "failed" =>
              raised[1].kind = IF Fails(Steps[1].then)
                               THEN FailKind(Steps[1].then)
                               ELSE FailKind(Steps[1].else_.v)

\* a call has failed on the else reference of an If step whose condition
\* holds and whose then reference resolves
C20_Witness ==
    /\ pc = "failed"
    /\ Branching
    /\ ConditionHolds(1)
    /\ ~Fails(Steps[1].then)
    /\ ElseFails
    /\ raised[1].kind = FailKind(Steps[1].else_.v)

====
